---- MODULE Spec2Model ----
(***************************************************************************)
(* The schema validation engine of src/src/languageservice/parser/         *)
(* jsonParser.ts: the AST, ValidationResult, the two schema collectors,    *)
(* the recursive validate() with its per-type validators, and the          *)
(* JSONDocument facade (validate, getMatchingSchemas).                     *)
(*                                                                         *)
(* A document is a table of AST nodes (node ids are positions in the       *)
(* table, 0 is "no node"); a schema is a record with every recognised      *)
(* keyword as a field, an absent keyword being the empty sequence.         *)
(* A thrown JavaScript exception is the result Threw: it aborts the whole  *)
(* run, as it does in the code, which has no try/catch around validate.    *)
(***************************************************************************)
EXTENDS Integers, Sequences, FiniteSets, TLC

(***************************************************************************)
(* Bounds of the model.                                                    *)
(***************************************************************************)
\* focus offsets given to getMatchingSchemas are -1..MaxFocus
MaxFocus == 3
\* getMatchingSchemas is given exclude = null (0) or one of the nodes 1..MaxExclude
MaxExclude == 4
\* anyOf and oneOf lists of the model hold 1..MaxAlts alternatives
MaxAlts == 3
\* keywords are nested around a schema up to MaxDepth deep
MaxDepth == 2
\* scores of the results drawn for compare() are 0..MaxScore
MaxScore == 1
\* offsets given to getNodeFromOffset are -1..MaxOffset
MaxOffset == 13
\* a visitor returns false on at most MaxFalse nodes
MaxFalse == 2

None == <<>>
Some(x) == <<x>>

(***************************************************************************)
(* JavaScript values (what getNodeValue returns, what enum/const hold).    *)
(***************************************************************************)
VNull == [t |-> "null"]
VBool(b) == [t |-> "boolean", b |-> b]
VNum(n) == [t |-> "number", n |-> n]
VStr(s) == [t |-> "string", s |-> s]
VArr(items) == [t |-> "array", items |-> items]
VObj(props) == [t |-> "object", props |-> props]
VUndefined == [t |-> "undefined"]

RECURSIVE Join(_, _)
Join(strs, sep) ==
  IF Len(strs) = 0 THEN ""
  ELSE IF Len(strs) = 1 THEN strs[1]
  ELSE strs[1] \o sep \o Join(Tail(strs), sep)

\* the keys of an object value in a fixed order (the model's values hold at
\* most the keys below)
KeyOrder == <<"<<", "a", "b", "c", "x", "y", "z">>

RECURSIVE JSONStringify(_)
JSONStringify(v) ==
  CASE v.t = "null" -> "null"
    [] v.t = "boolean" -> IF v.b THEN "true" ELSE "false"
    [] v.t = "number" -> ToString(v.n)
    [] v.t = "string" -> "\"" \o v.s \o "\""
    [] v.t = "array" ->
         "[" \o Join([i \in DOMAIN v.items |-> JSONStringify(v.items[i])], ",") \o "]"
    [] v.t = "object" ->
         LET ks == SelectSeq(KeyOrder, LAMBDA k : k \in DOMAIN v.props)
         IN "{" \o Join([i \in DOMAIN ks |->
                          "\"" \o ks[i] \o "\":" \o JSONStringify(v.props[ks[i]])], ",") \o "}"
    [] OTHER -> "undefined"

\* utils/objects.equals: deep structural equality
equals(a, b) == a = b

(***************************************************************************)
(* AST nodes (ASTNodeImpl and its seven subclasses).                       *)
(***************************************************************************)
ASTNodeImpl(type, parent, offset, length) ==
  [type |-> type, parent |-> parent, offset |-> offset, length |-> length,
   value |-> VUndefined, isInteger |-> FALSE,
   items |-> <<>>, properties |-> <<>>, keyNode |-> 0, valueNode |-> 0]

NullASTNodeImpl(parent, offset, length) ==
  [ASTNodeImpl("null", parent, offset, length) EXCEPT !.value = VNull]

BooleanASTNodeImpl(parent, boolValue, offset, length) ==
  [ASTNodeImpl("boolean", parent, offset, length) EXCEPT !.value = VBool(boolValue)]

ArrayASTNodeImpl(parent, offset, length, items) ==
  [ASTNodeImpl("array", parent, offset, length) EXCEPT !.items = items]

\* the parser sets value (and isInteger) after construction
NumberASTNodeImpl(parent, offset, length, value) ==
  [ASTNodeImpl("number", parent, offset, length) EXCEPT
     !.value = VNum(value), !.isInteger = TRUE]

StringASTNodeImpl(parent, offset, length, value) ==
  [ASTNodeImpl("string", parent, offset, length) EXCEPT !.value = VStr(value)]

PropertyASTNodeImpl(parent, offset, length, keyNode, valueNode) ==
  [ASTNodeImpl("property", parent, offset, length) EXCEPT
     !.keyNode = keyNode, !.valueNode = valueNode]

ObjectASTNodeImpl(parent, offset, length, properties) ==
  [ASTNodeImpl("object", parent, offset, length) EXCEPT !.properties = properties]

\* get children()
children(d, n) ==
  CASE d[n].type = "array" -> d[n].items
    [] d[n].type = "object" -> d[n].properties
    [] d[n].type = "property" ->
         IF d[n].valueNode # 0 THEN <<d[n].keyNode, d[n].valueNode>> ELSE <<d[n].keyNode>>
    [] OTHER -> <<>>

(***************************************************************************)
(* The documents of the model.  Node 1 is the root.  A key, a colon, a     *)
(* scalar and a separator take one character each.                         *)
(***************************************************************************)
\* 5
DocFive == << NumberASTNodeImpl(0, 0, 1, 5) >>

\* "abc"
DocAbc == << StringASTNodeImpl(0, 0, 5, "abc") >>

\* x:1,y:2
DocXY ==
  << ObjectASTNodeImpl(0, 0, 7, <<2, 5>>),
     PropertyASTNodeImpl(1, 0, 3, 3, 4),
     StringASTNodeImpl(2, 0, 1, "x"),
     NumberASTNodeImpl(2, 2, 1, 1),
     PropertyASTNodeImpl(1, 4, 3, 6, 7),
     StringASTNodeImpl(5, 4, 1, "y"),
     NumberASTNodeImpl(5, 6, 1, 2) >>

\* <<:{a:1},b:2      (the merge key: its value is an object)
DocMerge ==
  << ObjectASTNodeImpl(0, 0, 12, <<2, 8>>),
     PropertyASTNodeImpl(1, 0, 8, 3, 4),
     StringASTNodeImpl(2, 0, 2, "<<"),
     ObjectASTNodeImpl(2, 3, 5, <<5>>),
     PropertyASTNodeImpl(4, 4, 3, 6, 7),
     StringASTNodeImpl(5, 4, 1, "a"),
     NumberASTNodeImpl(5, 6, 1, 1),
     PropertyASTNodeImpl(1, 9, 3, 9, 10),
     StringASTNodeImpl(8, 9, 1, "b"),
     NumberASTNodeImpl(8, 11, 1, 2) >>

\* [1,2,2]
DocArr ==
  << ArrayASTNodeImpl(0, 0, 7, <<2, 3, 4>>),
     NumberASTNodeImpl(1, 1, 1, 1),
     NumberASTNodeImpl(1, 3, 1, 2),
     NumberASTNodeImpl(1, 5, 1, 2) >>

\* a:{b:1},c:     (c has an empty value: a null node of length 0 at the end)
DocNested ==
  << ObjectASTNodeImpl(0, 0, 10, <<2, 8>>),
     PropertyASTNodeImpl(1, 0, 7, 3, 4),
     StringASTNodeImpl(2, 0, 1, "a"),
     ObjectASTNodeImpl(2, 2, 5, <<5>>),
     PropertyASTNodeImpl(4, 3, 3, 6, 7),
     StringASTNodeImpl(5, 3, 1, "b"),
     NumberASTNodeImpl(5, 5, 1, 1),
     PropertyASTNodeImpl(1, 8, 2, 9, 10),
     StringASTNodeImpl(8, 8, 1, "c"),
     NullASTNodeImpl(8, 10, 0) >>

\* the empty mapping of an empty document: an object node of length 0
DocEmpty == << ObjectASTNodeImpl(0, 0, 0, <<>>) >>

\* [[1],[1]]
DocPairs ==
  << ArrayASTNodeImpl(0, 0, 9, <<2, 4>>),
     ArrayASTNodeImpl(1, 1, 3, <<3>>),
     NumberASTNodeImpl(2, 2, 1, 1),
     ArrayASTNodeImpl(1, 5, 3, <<5>>),
     NumberASTNodeImpl(4, 6, 1, 1) >>

\* x:1,y      (partial input: the property y has a key and no value node)
DocPartial ==
  << ObjectASTNodeImpl(0, 0, 5, <<2, 5>>),
     PropertyASTNodeImpl(1, 0, 3, 3, 4),
     StringASTNodeImpl(2, 0, 1, "x"),
     NumberASTNodeImpl(2, 2, 1, 1),
     PropertyASTNodeImpl(1, 4, 1, 6, 0),
     StringASTNodeImpl(5, 4, 1, "y") >>

\* y:1,x:2,y:3      (the key y occurs twice)
DocDup ==
  << ObjectASTNodeImpl(0, 0, 11, <<2, 5, 8>>),
     PropertyASTNodeImpl(1, 0, 3, 3, 4),
     StringASTNodeImpl(2, 0, 1, "y"),
     NumberASTNodeImpl(2, 2, 1, 1),
     PropertyASTNodeImpl(1, 4, 3, 6, 7),
     StringASTNodeImpl(5, 4, 1, "x"),
     NumberASTNodeImpl(5, 6, 1, 2),
     PropertyASTNodeImpl(1, 8, 3, 9, 10),
     StringASTNodeImpl(8, 8, 1, "y"),
     NumberASTNodeImpl(8, 10, 1, 3) >>

Docs ==
  <<DocFive, DocAbc, DocXY, DocMerge, DocArr, DocNested, DocEmpty, DocPairs, DocPartial,
    DocDup>>

\* Json.getNodeValue of jsonc-parser, reached through getNodeValue
RECURSIVE getNodeValue(_, _)
RECURSIVE objectValue(_, _, _, _)
objectValue(d, props, i, acc) ==
  IF i > Len(props) THEN acc
  ELSE LET p == d[props[i]]
       IN objectValue(d, props, i + 1,
            IF p.valueNode # 0
              THEN [k \in DOMAIN acc \cup {d[p.keyNode].value.s} |->
                      IF k = d[p.keyNode].value.s THEN getNodeValue(d, p.valueNode)
                      ELSE acc[k]]
              ELSE acc)

getNodeValue(d, n) ==
  CASE d[n].type = "array" ->
         VArr([i \in DOMAIN d[n].items |-> getNodeValue(d, d[n].items[i])])
    [] d[n].type = "object" -> VObj(objectValue(d, d[n].properties, 1, <<>>))
    [] d[n].type \in {"null", "string", "number", "boolean"} -> d[n].value
    [] OTHER -> VUndefined

\* contains(node, offset, includeRightBound)
contains(d, n, offset, includeRightBound) ==
  \/ (offset >= d[n].offset /\ offset < d[n].offset + d[n].length)
  \/ (includeRightBound /\ offset = d[n].offset + d[n].length)

(***************************************************************************)
(* Schemas (JSONSchema / JSONSchemaRef).  A schema reference is a boolean  *)
(* (bool = "true" / "false") or an object (bool = "obj").  An absent       *)
(* keyword is None, a keyword holding one schema is Some(schema), a        *)
(* keyword holding a list is the list; an absent list and an empty list    *)
(* behave alike in every place the code reads one.                         *)
(***************************************************************************)
EmptySchema ==
  [bool |-> "obj",
   type |-> <<>>, typeIsArray |-> FALSE,
   errorMessage |-> "", deprecationMessage |-> "", patternErrorMessage |-> "",
   allOf |-> <<>>, not |-> None, anyOf |-> <<>>, oneOf |-> <<>>,
   if |-> None, then |-> None, else |-> None,
   enum |-> None, const |-> None,
   multipleOf |-> None, minimum |-> None, maximum |-> None,
   exclusiveMinimum |-> None, exclusiveMaximum |-> None,
   minLength |-> None, maxLength |-> None, pattern |-> None, format |-> "",
   items |-> None, itemsIsArray |-> FALSE, additionalItems |-> None,
   contains |-> None, minItems |-> None, maxItems |-> None, uniqueItems |-> FALSE,
   properties |-> <<>>, patternProperties |-> <<>>, additionalProperties |-> None,
   required |-> <<>>, minProperties |-> None, maxProperties |-> None,
   dependencies |-> <<>>, propertyNames |-> None]

TrueSchema == [EmptySchema EXCEPT !.bool = "true"]
FalseSchema == [EmptySchema EXCEPT !.bool = "false"]

isBoolean(ref) == ref.bool # "obj"

\* asSchema(schema): true is {}, false is {"not": {}}
asSchema(schema) ==
  IF isBoolean(schema)
    THEN IF schema.bool = "true" THEN EmptySchema
         ELSE [EmptySchema EXCEPT !.not = Some(EmptySchema)]
  ELSE schema

\* asSchema of a keyword that may be absent (asSchema(undefined) is undefined)
asSchemaOpt(ref) == IF ref = None THEN None ELSE Some(asSchema(ref[1]))

(***************************************************************************)
(* Problems (IProblem).  Every problem of the engine is a warning.         *)
(***************************************************************************)
Problem(offset, length, code, message) ==
  [location |-> [offset |-> offset, length |-> length],
   severity |-> "Warning", code |-> code, message |-> message]

EnumValueMismatch == "EnumValueMismatch"
NoCode == ""

\* schema.errorMessage || message
OrMessage(custom, message) == IF custom # "" THEN custom ELSE message

enumWarning(vals) ==
  "Value is not accepted. Valid values: "
    \o Join([i \in DOMAIN vals |-> JSONStringify(vals[i])], ", ") \o "."

(***************************************************************************)
(* ValidationResult.                                                       *)
(***************************************************************************)
NewValidationResult ==
  [problems |-> <<>>,
   propertiesMatches |-> 0,
   propertiesValueMatches |-> 0,
   primaryValueMatches |-> 0,
   enumValueMatch |-> FALSE,
   enumValues |-> None]

hasProblems(vr) == Len(vr.problems) # 0

push(vr, p) == [vr EXCEPT !.problems = Append(@, p)]

merge(vr, other) == [vr EXCEPT !.problems = @ \o other.problems]

\* a variant of mergeEnumValues that puts the other result's values first
mergeEnumValuesOtherFirst(vr, other) ==
  IF ~vr.enumValueMatch /\ ~other.enumValueMatch
       /\ vr.enumValues # None /\ other.enumValues # None
    THEN LET vals == other.enumValues[1] \o vr.enumValues[1]
         IN [vr EXCEPT
               !.enumValues = Some(vals),
               !.problems = [i \in DOMAIN vr.problems |->
                               IF vr.problems[i].code = EnumValueMismatch
                                 THEN [vr.problems[i] EXCEPT !.message = enumWarning(vals)]
                               ELSE vr.problems[i]]]
  ELSE vr

mergeEnumValues(vr, other) ==
  IF ~vr.enumValueMatch /\ ~other.enumValueMatch
       /\ vr.enumValues # None /\ other.enumValues # None
    THEN LET vals == vr.enumValues[1] \o other.enumValues[1]
         IN [vr EXCEPT
               !.enumValues = Some(vals),
               !.problems = [i \in DOMAIN vr.problems |->
                               IF vr.problems[i].code = EnumValueMismatch
                                 THEN [vr.problems[i] EXCEPT !.message = enumWarning(vals)]
                               ELSE vr.problems[i]]]
  ELSE vr

\* a variant of mergePropertyMatch that counts every property as a value match
mergePropertyMatchAlwaysValue(vr, child) ==
  LET m == merge(vr, child)
  IN [m EXCEPT
        !.propertiesMatches = @ + 1,
        !.propertiesValueMatches = @ + 1,
        !.primaryValueMatches =
           IF child.enumValueMatch /\ child.enumValues # None
                /\ Len(child.enumValues[1]) = 1
             THEN @ + 1 ELSE @]

mergePropertyMatch(vr, child) ==
  LET m == merge(vr, child)
  IN [m EXCEPT
        !.propertiesMatches = @ + 1,
        !.propertiesValueMatches =
           IF child.enumValueMatch
                \/ (~hasProblems(child) /\ child.propertiesMatches # 0)
             THEN @ + 1 ELSE @,
        !.primaryValueMatches =
           IF child.enumValueMatch /\ child.enumValues # None
                /\ Len(child.enumValues[1]) = 1
             THEN @ + 1 ELSE @]

\* a variant of compare that does not look at the problems
compareIgnoringProblems(this, other) ==
  IF this.enumValueMatch # other.enumValueMatch
    THEN IF other.enumValueMatch THEN -1 ELSE 1
  ELSE IF this.primaryValueMatches # other.primaryValueMatches
    THEN this.primaryValueMatches - other.primaryValueMatches
  ELSE IF this.propertiesValueMatches # other.propertiesValueMatches
    THEN this.propertiesValueMatches - other.propertiesValueMatches
  ELSE this.propertiesMatches - other.propertiesMatches

\* a variant of compare that looks at propertiesMatches before
\* propertiesValueMatches
comparePropertiesFirst(this, other) ==
  IF hasProblems(this) # hasProblems(other)
    THEN IF hasProblems(this) THEN -1 ELSE 1
  ELSE IF this.enumValueMatch # other.enumValueMatch
    THEN IF other.enumValueMatch THEN -1 ELSE 1
  ELSE IF this.primaryValueMatches # other.primaryValueMatches
    THEN this.primaryValueMatches - other.primaryValueMatches
  ELSE IF this.propertiesMatches # other.propertiesMatches
    THEN this.propertiesMatches - other.propertiesMatches
  ELSE this.propertiesValueMatches - other.propertiesValueMatches

compare(this, other) ==
  IF hasProblems(this) # hasProblems(other)
    THEN IF hasProblems(this) THEN -1 ELSE 1
  ELSE IF this.enumValueMatch # other.enumValueMatch
    THEN IF other.enumValueMatch THEN -1 ELSE 1
  ELSE IF this.primaryValueMatches # other.primaryValueMatches
    THEN this.primaryValueMatches - other.primaryValueMatches
  ELSE IF this.propertiesValueMatches # other.propertiesValueMatches
    THEN this.propertiesValueMatches - other.propertiesValueMatches
  ELSE this.propertiesMatches - other.propertiesMatches

(***************************************************************************)
(* Schema collectors.  kind "rec" is SchemaCollector, kind "noop" is the   *)
(* NoOpSchemaCollector singleton, whose schemas getter is always [].       *)
(* A record (IApplicableSchema) carries inverted as the code leaves it     *)
(* ("undefined" until the first flip) and two history fields the code      *)
(* does not have: nots, the number of `not` keywords between the top-level *)
(* schema and the record's schema, and sub, the number of newSub()         *)
(* collectors between the facade's collector and the one the record was    *)
(* added to.                                                               *)
(***************************************************************************)
SchemaCollector(focusOffset, exclude) ==
  [kind |-> "rec", focusOffset |-> focusOffset, exclude |-> exclude, schemas |-> <<>>]

NoOpSchemaCollector ==
  [kind |-> "noop", focusOffset |-> -1, exclude |-> 0, schemas |-> <<>>]

add(col, rec) ==
  IF col.kind = "noop" THEN col ELSE [col EXCEPT !.schemas = Append(@, rec)]

mergeCollector(col, other) ==
  IF col.kind = "noop" THEN col ELSE [col EXCEPT !.schemas = @ \o other.schemas]

\* a variant of include without the focusOffset = -1 case
includeContainingOnly(col, d, n) ==
  IF col.kind = "noop" THEN TRUE
  ELSE contains(d, n, col.focusOffset, FALSE) /\ n # col.exclude

\* a variant of include that does not look at focusOffset
includeAnyOffset(col, d, n) ==
  IF col.kind = "noop" THEN TRUE ELSE n # col.exclude

include(col, d, n) ==
  IF col.kind = "noop" THEN TRUE
  ELSE (col.focusOffset = -1 \/ contains(d, n, col.focusOffset, FALSE))
         /\ n # col.exclude

\* a variant of newSub that does not pass exclude on
newSubWithoutExclude(col) ==
  IF col.kind = "noop" THEN col ELSE SchemaCollector(-1, 0)

newSub(col) ==
  IF col.kind = "noop" THEN col ELSE SchemaCollector(-1, col.exclude)

ApplicableSchema(n, schema, g) ==
  [node |-> n, schema |-> schema, inverted |-> "undefined",
   nots |-> g.nots, sub |-> g.sub, caller |-> g.caller]

\* a variant of flip: ms.inverted = true
flipToTrue(ms) == [ms EXCEPT !.inverted = "true"]

\* ms.inverted = !ms.inverted
flip(ms) ==
  [ms EXCEPT !.inverted = IF @ = "true" THEN "false" ELSE "true"]

(***************************************************************************)
(* The state threaded through validate: the ValidationResult and the       *)
(* collector the caller passed (both are mutated in place by the code),    *)
(* and whether an exception is propagating.                                *)
(***************************************************************************)
Ok(vr, col) == [vr |-> vr, col |-> col, threw |-> FALSE]
Threw == [vr |-> NewValidationResult, col |-> NoOpSchemaCollector, threw |-> TRUE]

\* the history context of a validate call: the nots and the newSub collectors
\* above it, and the validate call that made it (none for the facade's call)
TopContext == [nots |-> 0, sub |-> 0, caller |-> None]
UnderNot(g) == [g EXCEPT !.nots = @ + 1, !.sub = @ + 1]
UnderSub(g) == [g EXCEPT !.sub = @ + 1]
\* the context of the calls made while validate(n, schema) runs
Inside(g, n, schema) == [g EXCEPT !.caller = Some([node |-> n, schema |-> schema])]

(***************************************************************************)
(* Regular expressions and formats.  The model's strings are the keys of   *)
(* KeyOrder and "abc"; a pattern is one of the strings below.  new RegExp  *)
(* throws a SyntaxError on a pattern that is not a regular expression.     *)
(***************************************************************************)
RegExpValid(pattern) == pattern # "("

RegExpTest(pattern, str) ==
  CASE pattern = "^a" -> str \in {"a", "abc"}
    [] pattern = "b" -> str \in {"b", "abc"}
    [] pattern = "^[xy]$" -> str \in {"x", "y"}
    [] OTHER -> FALSE

\* Uri.parse(value).scheme is empty, and neither format pattern matches,
\* for every string of the model
UriHasScheme(str) == FALSE
emailPattern(str) == FALSE
colorHexPattern(str) == FALSE

(***************************************************************************)
(* _validateNumberNode                                                     *)
(***************************************************************************)
\* the exclusive bound: a number, or true on the adjacent inclusive bound
getExclusiveLimit(limit, exclusive) ==
  IF exclusive # None /\ exclusive[1].t = "number" THEN Some(exclusive[1].n)
  ELSE IF exclusive # None /\ exclusive[1].t = "boolean" /\ exclusive[1].b THEN limit
  ELSE None

getLimit(limit, exclusive) ==
  IF ~(exclusive # None /\ exclusive[1].t = "boolean") \/ ~exclusive[1].b THEN limit
  ELSE None

Abs(i) == IF i < 0 THEN -i ELSE i

\* val % m !== 0 (m = 0 gives NaN)
NotDivisible(val, m) == IF m = 0 THEN TRUE ELSE (Abs(val) % Abs(m)) # 0

validateNumberNode(d, n, schema, vr) ==
  LET val == d[n].value.n
      at(code, message) == Problem(d[n].offset, d[n].length, code, message)
      exclusiveMinimum == getExclusiveLimit(schema.minimum, schema.exclusiveMinimum)
      exclusiveMaximum == getExclusiveLimit(schema.maximum, schema.exclusiveMaximum)
      minimum == getLimit(schema.minimum, schema.exclusiveMinimum)
      maximum == getLimit(schema.maximum, schema.exclusiveMaximum)
      r1(r) == IF schema.multipleOf # None /\ NotDivisible(val, schema.multipleOf[1])
                 THEN push(r, at(NoCode, "Value is not divisible by "
                                           \o ToString(schema.multipleOf[1]) \o "."))
               ELSE r
      r2(r) == IF exclusiveMinimum # None /\ val <= exclusiveMinimum[1]
                 THEN push(r, at(NoCode, "Value is below the exclusive minimum of "
                                           \o ToString(exclusiveMinimum[1]) \o "."))
               ELSE r
      r3(r) == IF exclusiveMaximum # None /\ val >= exclusiveMaximum[1]
                 THEN push(r, at(NoCode, "Value is above the exclusive maximum of "
                                           \o ToString(exclusiveMaximum[1]) \o "."))
               ELSE r
      r4(r) == IF minimum # None /\ val < minimum[1]
                 THEN push(r, at(NoCode, "Value is below the minimum of "
                                           \o ToString(minimum[1]) \o "."))
               ELSE r
      r5(r) == IF maximum # None /\ val > maximum[1]
                 THEN push(r, at(NoCode, "Value is above the maximum of "
                                           \o ToString(maximum[1]) \o "."))
               ELSE r
  IN r5(r4(r3(r2(r1(vr)))))

(***************************************************************************)
(* _validateStringNode: the result, or Threw when new RegExp throws.       *)
(***************************************************************************)
validateStringNode(d, n, schema, vr, col) ==
  LET str == d[n].value.s
      at(message) == Problem(d[n].offset, d[n].length, NoCode, message)
      custom(message) ==
        IF schema.patternErrorMessage # "" THEN schema.patternErrorMessage
        ELSE OrMessage(schema.errorMessage, message)
      r1(r) == IF schema.minLength # None /\ Len(str) < schema.minLength[1]
                 THEN push(r, at("String is shorter than the minimum length of "
                                   \o ToString(schema.minLength[1]) \o "."))
               ELSE r
      r2(r) == IF schema.maxLength # None /\ Len(str) > schema.maxLength[1]
                 THEN push(r, at("String is longer than the maximum length of "
                                   \o ToString(schema.maxLength[1]) \o "."))
               ELSE r
      r3(r) == IF schema.pattern # None /\ ~RegExpTest(schema.pattern[1], str)
                 THEN push(r, at(custom("String does not match the pattern of \""
                                          \o schema.pattern[1] \o "\".")))
               ELSE r
      uriError ==
        IF Len(str) = 0 THEN "URI expected."
        ELSE IF ~UriHasScheme(str) /\ schema.format = "uri"
          THEN "URI with a scheme is expected."
        ELSE ""
      r4(r) == CASE schema.format \in {"uri", "uri-reference"} ->
                      IF uriError # ""
                        THEN push(r, at(custom("String is not a URI: " \o uriError)))
                      ELSE r
                 [] schema.format = "email" ->
                      IF ~emailPattern(str)
                        THEN push(r, at(custom("String is not an e-mail address.")))
                      ELSE r
                 [] schema.format = "color-hex" ->
                      IF ~colorHexPattern(str)
                        THEN push(r, at(custom(
                          "Invalid color format. Use #RGB, #RGBA, #RRGGBB or #RRGGBBAA.")))
                      ELSE r
                 [] OTHER -> r
  IN IF schema.pattern # None /\ ~RegExpValid(schema.pattern[1]) THEN Threw
     ELSE Ok(r4(r3(r2(r1(vr)))), col)

(***************************************************************************)
(* validate and the validators that recurse through it.  Each takes the    *)
(* document d, the node n, the schema, the threaded state st (or the       *)
(* result vr and the collector col) and the history context g.             *)
(***************************************************************************)
RECURSIVE validate(_, _, _, _, _, _)
RECURSIVE validateNode(_, _, _, _, _)
RECURSIVE validateArrayNode(_, _, _, _, _)
RECURSIVE validateObjectNode(_, _, _, _, _)
RECURSIVE allOfLoop(_, _, _, _, _, _)
RECURSIVE alternativesLoop(_, _, _, _, _, _, _, _)
RECURSIVE itemsLoop(_, _, _, _, _, _, _)
RECURSIVE containsLoop(_, _, _, _)
RECURSIVE propertiesLoop(_, _, _, _, _, _)
RECURSIVE propertiesLoopLastKeyFirst(_, _, _, _, _, _)
RECURSIVE patternLoop(_, _, _, _, _, _)
RECURSIVE patternNamesLoop(_, _, _, _, _, _, _, _)
RECURSIVE additionalLoop(_, _, _, _, _, _, _)
RECURSIVE dependenciesLoop(_, _, _, _, _, _, _)
RECURSIVE dependenciesLoopWholeSchema(_, _, _, _, _, _, _)
RECURSIVE propertyNamesLoop(_, _, _, _, _)

matchesType(d, n, type) ==
  d[n].type = type \/ (type = "integer" /\ d[n].type = "number" /\ d[n].isInteger)

\* schema.type
typeStep(d, n, schema, vr) ==
  IF schema.typeIsArray
    THEN IF ~\E i \in DOMAIN schema.type : matchesType(d, n, schema.type[i])
           THEN push(vr, Problem(d[n].offset, d[n].length, NoCode,
                  OrMessage(schema.errorMessage,
                    "Incorrect type. Expected one of " \o Join(schema.type, ", ") \o ".")))
         ELSE vr
  ELSE IF schema.type # <<>>
    THEN IF ~matchesType(d, n, schema.type[1])
           THEN push(vr, Problem(d[n].offset, d[n].length, NoCode,
                  OrMessage(schema.errorMessage,
                    "Incorrect type. Expected \"" \o schema.type[1] \o "\".")))
         ELSE vr
  ELSE vr

\* schema.allOf: the same result and the same collector
allOfLoop(d, n, subs, i, st, g) ==
  IF st.threw \/ i > Len(subs) THEN st
  ELSE allOfLoop(d, n, subs, i + 1,
                 validate(d, n, asSchema(subs[i]), st.vr, st.col, g), g)

\* the records of the `not` sub-collector, each flipped, added to the outer one
addInverted(col, schemas) ==
  IF col.kind = "noop" THEN col
  ELSE [col EXCEPT !.schemas = @ \o [i \in DOMAIN schemas |-> flip(schemas[i])]]

\* a variant of the not step that adds the match scores and the enum flags
\* of the sub-result to the outer result
notStepKeepsScores(d, n, schema, st, g) ==
  LET notSchema == asSchemaOpt(schema.not)
  IN IF notSchema = None THEN st
     ELSE LET sub == validate(d, n, notSchema[1], NewValidationResult,
                              newSub(st.col), UnderNot(g))
              vr1 == [st.vr EXCEPT
                        !.propertiesMatches = @ + sub.vr.propertiesMatches,
                        !.propertiesValueMatches = @ + sub.vr.propertiesValueMatches,
                        !.enumValueMatch = sub.vr.enumValueMatch,
                        !.enumValues = sub.vr.enumValues]
          IN IF sub.threw THEN Threw
             ELSE Ok(IF ~hasProblems(sub.vr)
                       THEN push(vr1, Problem(d[n].offset, d[n].length, NoCode,
                                   "Matches a schema that is not allowed."))
                     ELSE vr1,
                     addInverted(st.col, sub.col.schemas))

\* schema.not
notStep(d, n, schema, st, g) ==
  LET notSchema == asSchemaOpt(schema.not)
  IN IF notSchema = None THEN st
     ELSE LET sub == validate(d, n, notSchema[1], NewValidationResult,
                              newSub(st.col), UnderNot(g))
          IN IF sub.threw THEN Threw
             ELSE Ok(IF ~hasProblems(sub.vr)
                       THEN push(st.vr, Problem(d[n].offset, d[n].length, NoCode,
                                   "Matches a schema that is not allowed."))
                     ELSE st.vr,
                     addInverted(st.col, sub.col.schemas))

\* a variant of selectBestMatch where a tie replaces the best match
selectBestMatchLastWins(acc, subSchema, sub, maxOneMatch) ==
  LET current == [schema |-> subSchema, validationResult |-> sub.vr,
                  matchingSchemas |-> sub.col]
      best == acc.bestMatch[1]
      compareResult == compare(sub.vr, best.validationResult)
  IN [acc EXCEPT
        !.matches = IF ~hasProblems(sub.vr) THEN Append(@, subSchema) ELSE @,
        !.bestMatch =
           IF acc.bestMatch = None THEN Some(current)
           ELSE IF ~maxOneMatch /\ ~hasProblems(sub.vr)
                     /\ ~hasProblems(best.validationResult)
             THEN Some([best EXCEPT
                    !.matchingSchemas = mergeCollector(@, sub.col),
                    !.validationResult.propertiesMatches =
                       @ + sub.vr.propertiesMatches,
                    !.validationResult.propertiesValueMatches =
                       @ + sub.vr.propertiesValueMatches])
           ELSE IF compareResult >= 0 THEN Some(current)
           ELSE acc.bestMatch]

\* a variant of selectBestMatch without the merge of two clean alternatives
selectBestMatchNoMerge(acc, subSchema, sub, maxOneMatch) ==
  LET current == [schema |-> subSchema, validationResult |-> sub.vr,
                  matchingSchemas |-> sub.col]
      best == acc.bestMatch[1]
      compareResult == compare(sub.vr, best.validationResult)
  IN [acc EXCEPT
        !.matches = IF ~hasProblems(sub.vr) THEN Append(@, subSchema) ELSE @,
        !.bestMatch =
           IF acc.bestMatch = None THEN Some(current)
           ELSE IF compareResult > 0 THEN Some(current)
           ELSE IF compareResult = 0
             THEN Some([best EXCEPT
                    !.matchingSchemas = mergeCollector(@, sub.col),
                    !.validationResult = mergeEnumValues(@, sub.vr)])
           ELSE acc.bestMatch]

\* a variant of the loop body where an alternative that compares equal to the
\* best match adds its problems to it
selectBestMatchTieAddsProblems(acc, subSchema, sub, maxOneMatch) ==
  LET current == [schema |-> subSchema, validationResult |-> sub.vr,
                  matchingSchemas |-> sub.col]
      best == acc.bestMatch[1]
      compareResult == compare(sub.vr, best.validationResult)
  IN [acc EXCEPT
        !.matches = IF ~hasProblems(sub.vr) THEN Append(@, subSchema) ELSE @,
        !.bestMatch =
           IF acc.bestMatch = None THEN Some(current)
           ELSE IF ~maxOneMatch /\ ~hasProblems(sub.vr)
                     /\ ~hasProblems(best.validationResult)
             THEN Some([best EXCEPT
                    !.matchingSchemas = mergeCollector(@, sub.col),
                    !.validationResult.propertiesMatches =
                       @ + sub.vr.propertiesMatches,
                    !.validationResult.propertiesValueMatches =
                       @ + sub.vr.propertiesValueMatches])
           ELSE IF compareResult > 0 THEN Some(current)
           ELSE IF compareResult = 0
             THEN Some([best EXCEPT
                    !.matchingSchemas = mergeCollector(@, sub.col),
                    !.validationResult = merge(mergeEnumValues(@, sub.vr), sub.vr)])
           ELSE acc.bestMatch]

\* a variant of the loop body that merges the collector of an alternative
\* that compares worse than the best match as well
selectBestMatchKeepRecords(acc, subSchema, sub, maxOneMatch) ==
  LET current == [schema |-> subSchema, validationResult |-> sub.vr,
                  matchingSchemas |-> sub.col]
      best == acc.bestMatch[1]
      compareResult == compare(sub.vr, best.validationResult)
  IN [acc EXCEPT
        !.matches = IF ~hasProblems(sub.vr) THEN Append(@, subSchema) ELSE @,
        !.bestMatch =
           IF acc.bestMatch = None THEN Some(current)
           ELSE IF ~maxOneMatch /\ ~hasProblems(sub.vr)
                     /\ ~hasProblems(best.validationResult)
             THEN Some([best EXCEPT
                    !.matchingSchemas = mergeCollector(@, sub.col),
                    !.validationResult.propertiesMatches =
                       @ + sub.vr.propertiesMatches,
                    !.validationResult.propertiesValueMatches =
                       @ + sub.vr.propertiesValueMatches])
           ELSE IF compareResult > 0 THEN Some(current)
           ELSE IF compareResult = 0
             THEN Some([best EXCEPT
                    !.matchingSchemas = mergeCollector(@, sub.col),
                    !.validationResult = mergeEnumValues(@, sub.vr)])
           ELSE Some([best EXCEPT !.matchingSchemas = mergeCollector(@, sub.col)])]

\* the body of the loop of testAlternatives once the alternative is validated
\* (sub): matches and bestMatch after it
selectBestMatch(acc, subSchema, sub, maxOneMatch) ==
  LET current == [schema |-> subSchema, validationResult |-> sub.vr,
                  matchingSchemas |-> sub.col]
      best == acc.bestMatch[1]
      compareResult == compare(sub.vr, best.validationResult)
  IN [acc EXCEPT
        !.matches = IF ~hasProblems(sub.vr) THEN Append(@, subSchema) ELSE @,
        !.bestMatch =
           IF acc.bestMatch = None THEN Some(current)
           ELSE IF ~maxOneMatch /\ ~hasProblems(sub.vr)
                     /\ ~hasProblems(best.validationResult)
             THEN Some([best EXCEPT
                    !.matchingSchemas = mergeCollector(@, sub.col),
                    !.validationResult.propertiesMatches =
                       @ + sub.vr.propertiesMatches,
                    !.validationResult.propertiesValueMatches =
                       @ + sub.vr.propertiesValueMatches])
           ELSE IF compareResult > 0 THEN Some(current)
           ELSE IF compareResult = 0
             THEN Some([best EXCEPT
                    !.matchingSchemas = mergeCollector(@, sub.col),
                    !.validationResult = mergeEnumValues(@, sub.vr)])
           ELSE acc.bestMatch]

alternativesLoop(d, n, alternatives, maxOneMatch, i, acc, col, g) ==
  IF acc.threw \/ i > Len(alternatives) THEN acc
  ELSE LET subSchema == asSchema(alternatives[i])
           sub == validate(d, n, subSchema, NewValidationResult, newSub(col), UnderSub(g))
       IN IF sub.threw THEN [acc EXCEPT !.threw = TRUE]
          ELSE alternativesLoop(d, n, alternatives, maxOneMatch, i + 1,
                 selectBestMatch(acc, subSchema, sub, maxOneMatch), col, g)

\* a variant of the end of testAlternatives that warns about several matches
\* under anyOf as well
mergeBestMatchAlwaysWarns(d, n, acc, maxOneMatch, st) ==
  LET vr1 == IF Len(acc.matches) > 1
               THEN push(st.vr, Problem(d[n].offset, 1, NoCode,
                           "Matches multiple schemas when only one must validate."))
             ELSE st.vr
  IN IF acc.bestMatch # None
       THEN LET best == acc.bestMatch[1]
            IN Ok([merge(vr1, best.validationResult) EXCEPT
                     !.propertiesMatches =
                        @ + best.validationResult.propertiesMatches,
                     !.propertiesValueMatches =
                        @ + best.validationResult.propertiesValueMatches],
                  mergeCollector(st.col, best.matchingSchemas))
     ELSE Ok(vr1, st.col)

\* what testAlternatives does after its loop
mergeBestMatch(d, n, acc, maxOneMatch, st) ==
  LET vr1 == IF Len(acc.matches) > 1 /\ maxOneMatch
               THEN push(st.vr, Problem(d[n].offset, 1, NoCode,
                           "Matches multiple schemas when only one must validate."))
             ELSE st.vr
  IN IF acc.bestMatch # None
       THEN LET best == acc.bestMatch[1]
            IN Ok([merge(vr1, best.validationResult) EXCEPT
                     !.propertiesMatches =
                        @ + best.validationResult.propertiesMatches,
                     !.propertiesValueMatches =
                        @ + best.validationResult.propertiesValueMatches],
                  mergeCollector(st.col, best.matchingSchemas))
     ELSE Ok(vr1, st.col)

\* schema.anyOf (maxOneMatch false), schema.oneOf (maxOneMatch true)
testAlternatives(d, n, alternatives, maxOneMatch, st, g) ==
  LET acc == alternativesLoop(d, n, alternatives, maxOneMatch, 1,
               [matches |-> <<>>, bestMatch |-> None, threw |-> FALSE], st.col, g)
  IN IF acc.threw THEN Threw ELSE mergeBestMatch(d, n, acc, maxOneMatch, st)

testBranch(d, n, schema, st, g) ==
  LET sub == validate(d, n, asSchema(schema), NewValidationResult,
                      newSub(st.col), UnderSub(g))
  IN IF sub.threw THEN Threw
     ELSE Ok([merge(st.vr, sub.vr) EXCEPT
                !.propertiesMatches = @ + sub.vr.propertiesMatches,
                !.propertiesValueMatches = @ + sub.vr.propertiesValueMatches],
             mergeCollector(st.col, sub.col))

\* a variant of testCondition that merges the problems of the if
\* sub-validation into the outer result
testConditionKeepIfProblems(d, n, ifSchema, thenSchema, elseSchema, st, g) ==
  LET sub == validate(d, n, asSchema(ifSchema), NewValidationResult,
                      newSub(st.col), UnderSub(g))
      st1 == Ok(merge(st.vr, sub.vr), mergeCollector(st.col, sub.col))
  IN IF sub.threw THEN Threw
     ELSE IF ~hasProblems(sub.vr)
       THEN IF thenSchema # None THEN testBranch(d, n, thenSchema[1], st1, g) ELSE st1
     ELSE IF elseSchema # None THEN testBranch(d, n, elseSchema[1], st1, g)
     ELSE st1

\* schema.if / then / else
testCondition(d, n, ifSchema, thenSchema, elseSchema, st, g) ==
  LET sub == validate(d, n, asSchema(ifSchema), NewValidationResult,
                      newSub(st.col), UnderSub(g))
      st1 == Ok(st.vr, mergeCollector(st.col, sub.col))
  IN IF sub.threw THEN Threw
     ELSE IF ~hasProblems(sub.vr)
       THEN IF thenSchema # None THEN testBranch(d, n, thenSchema[1], st1, g) ELSE st1
     ELSE IF elseSchema # None THEN testBranch(d, n, elseSchema[1], st1, g)
     ELSE st1

\* schema.enum
enumStep(d, n, schema, vr) ==
  IF schema.enum = None THEN vr
  ELSE LET val == getNodeValue(d, n)
           enum == schema.enum[1]
           enumValueMatch == \E i \in DOMAIN enum : equals(val, enum[i])
           r == [vr EXCEPT !.enumValues = Some(enum), !.enumValueMatch = enumValueMatch]
       IN IF ~enumValueMatch
            THEN push(r, Problem(d[n].offset, d[n].length, EnumValueMismatch,
                           OrMessage(schema.errorMessage, enumWarning(enum))))
          ELSE r

\* schema.const
constStep(d, n, schema, vr) ==
  IF schema.const = None THEN vr
  ELSE LET val == getNodeValue(d, n)
           r == IF ~equals(val, schema.const[1])
                  THEN [push(vr, Problem(d[n].offset, d[n].length, EnumValueMismatch,
                                   OrMessage(schema.errorMessage,
                                     "Value must be " \o JSONStringify(schema.const[1]) \o ".")))
                          EXCEPT !.enumValueMatch = FALSE]
                ELSE [vr EXCEPT !.enumValueMatch = TRUE]
       IN [r EXCEPT !.enumValues = Some(<<schema.const[1]>>)]

\* schema.deprecationMessage
deprecationStep(d, n, schema, vr) ==
  IF schema.deprecationMessage # "" /\ d[n].parent # 0
    THEN push(vr, Problem(d[d[n].parent].offset, d[d[n].parent].length, NoCode,
                          schema.deprecationMessage))
  ELSE vr

\* a variant of _validateNode that takes enum, const and deprecationMessage
\* before type
validateNodeEnumFirst(d, n, schema, st, g) ==
  LET s1(s) == Ok(typeStep(d, n, schema, s.vr), s.col)
      s2(s) == allOfLoop(d, n, schema.allOf, 1, s, g)
      s3(s) == IF s.threw THEN s ELSE notStep(d, n, schema, s, g)
      s4(s) == IF s.threw THEN s ELSE testAlternatives(d, n, schema.anyOf, FALSE, s, g)
      s5(s) == IF s.threw THEN s ELSE testAlternatives(d, n, schema.oneOf, TRUE, s, g)
      s6(s) == IF s.threw \/ schema.if = None THEN s
               ELSE testCondition(d, n, asSchema(schema.if[1]), asSchemaOpt(schema.then),
                                  asSchemaOpt(schema.else), s, g)
      s7(s) == IF s.threw THEN s
               ELSE Ok(deprecationStep(d, n, schema,
                         constStep(d, n, schema, enumStep(d, n, schema, s.vr))), s.col)
  IN s6(s5(s4(s3(s2(s1(s7(st)))))))

\* _validateNode: the keywords every node type shares
validateNode(d, n, schema, st, g) ==
  LET s1(s) == Ok(typeStep(d, n, schema, s.vr), s.col)
      s2(s) == allOfLoop(d, n, schema.allOf, 1, s, g)
      s3(s) == IF s.threw THEN s ELSE notStep(d, n, schema, s, g)
      s4(s) == IF s.threw THEN s ELSE testAlternatives(d, n, schema.anyOf, FALSE, s, g)
      s5(s) == IF s.threw THEN s ELSE testAlternatives(d, n, schema.oneOf, TRUE, s, g)
      s6(s) == IF s.threw \/ schema.if = None THEN s
               ELSE testCondition(d, n, asSchema(schema.if[1]), asSchemaOpt(schema.then),
                                  asSchemaOpt(schema.else), s, g)
      s7(s) == IF s.threw THEN s
               ELSE Ok(deprecationStep(d, n, schema,
                         constStep(d, n, schema, enumStep(d, n, schema, s.vr))), s.col)
  IN s7(s6(s5(s4(s3(s2(s1(st)))))))

(***************************************************************************)
(* _validateArrayNode                                                      *)
(***************************************************************************)
\* validate(item, subSchema, new ValidationResult(), matchingSchemas), then
\* validationResult.mergePropertyMatch(itemValidationResult)
validateChild(d, child, subSchema, st, g) ==
  LET sub == validate(d, child, subSchema, NewValidationResult, st.col, g)
  IN IF sub.threw THEN Threw ELSE Ok(mergePropertyMatch(st.vr, sub.vr), sub.col)

\* the items from..to of the array, item i against schemaOf(i): the tuple
\* loop takes subSchemas[i], the other two loops one schema for all
itemsLoop(d, n, subSchemas, single, i, to, stg) ==
  LET st == stg[1]
      g == stg[2]
      items == d[n].items
  IN IF st.threw \/ i > to THEN st
     ELSE itemsLoop(d, n, subSchemas, single, i + 1, to,
            << IF single # None THEN validateChild(d, items[i], single[1], st, g)
               ELSE IF i <= Len(items)
                 THEN validateChild(d, items[i], asSchema(subSchemas[i]), st, g)
               ELSE IF Len(items) >= Len(subSchemas)
                 THEN Ok([st.vr EXCEPT !.propertiesValueMatches = @ + 1], st.col)
               ELSE st,
               g >>)

\* node.items.some(item => validates against containsSchema without problems)
containsLoop(d, n, containsSchema, i) ==
  IF i > Len(d[n].items) THEN [found |-> FALSE, threw |-> FALSE]
  ELSE LET sub == validate(d, d[n].items[i], containsSchema, NewValidationResult,
                           NoOpSchemaCollector, TopContext)
       IN IF sub.threw THEN [found |-> FALSE, threw |-> TRUE]
          ELSE IF ~hasProblems(sub.vr) THEN [found |-> TRUE, threw |-> FALSE]
          ELSE containsLoop(d, n, containsSchema, i + 1)

\* === on the values of two different nodes: an array or an object is equal
\* only to itself, and getNodeValue builds a new one for every node
StrictEquals(a, b) == a.t \notin {"array", "object"} /\ a = b

\* values.lastIndexOf(value), value being values[index]: the element itself
\* is always found
lastIndexOf(values, index) ==
  LET hits == {j \in DOMAIN values : j = index \/ StrictEquals(values[j], values[index])}
  IN CHOOSE j \in hits : \A k \in hits : k <= j

validateArrayNode(d, n, schema, st, g) ==
  LET node == d[n]
      at(message) == Problem(node.offset, node.length, NoCode, message)
      nItems == Len(node.items)
      \* items beyond the tuple of schemas
      additional(t) ==
        IF t.threw \/ nItems <= Len(schema.items) THEN t
        ELSE IF schema.additionalItems # None /\ schema.additionalItems[1].bool = "obj"
          THEN itemsLoop(d, n, <<>>, schema.additionalItems,
                         Len(schema.items) + 1, nItems, <<t, g>>)
        ELSE IF schema.additionalItems # None /\ schema.additionalItems[1].bool = "false"
          THEN Ok(push(t.vr, at(
                 "Array has too many items according to schema. Expected "
                   \o ToString(Len(schema.items)) \o " or fewer.")), t.col)
        ELSE t
      \* items
      s1(s) == IF schema.itemsIsArray
                 THEN additional(itemsLoop(d, n, schema.items, None, 1,
                                           Len(schema.items), <<s, g>>))
               ELSE IF schema.items # None
                 THEN itemsLoop(d, n, <<>>, asSchemaOpt(schema.items), 1, nItems, <<s, g>>)
               ELSE s
      \* contains
      found(c, s) ==
        IF c.threw THEN Threw
        ELSE IF ~c.found
          THEN Ok(push(s.vr, at(OrMessage(schema.errorMessage,
                    "Array does not contain required item."))), s.col)
        ELSE s
      s2(s) == IF s.threw \/ schema.contains = None THEN s
               ELSE found(containsLoop(d, n, asSchema(schema.contains[1]), 1), s)
      r3(r) == IF schema.minItems # None /\ nItems < schema.minItems[1]
                 THEN push(r, at("Array has too few items. Expected "
                                   \o ToString(schema.minItems[1]) \o " or more."))
               ELSE r
      r4(r) == IF schema.maxItems # None /\ nItems > schema.maxItems[1]
                 THEN push(r, at("Array has too many items. Expected "
                                   \o ToString(schema.maxItems[1]) \o " or fewer."))
               ELSE r
      values == getNodeValue(d, n).items
      duplicates == \E i \in DOMAIN values : i # lastIndexOf(values, i)
      r5(r) == IF schema.uniqueItems /\ duplicates
                 THEN push(r, at("Array has duplicate items."))
               ELSE r
      s5(s) == IF s.threw THEN s ELSE Ok(r5(r4(r3(s.vr))), s.col)
  IN s5(s2(s1(st)))

(***************************************************************************)
(* _validateObjectNode                                                     *)
(***************************************************************************)
\* seenKeys[key] = valueNode
Put(seenKeys, key, valueNode) ==
  [k \in DOMAIN seenKeys \cup {key} |-> IF k = key THEN valueNode ELSE seenKeys[k]]

\* seenKeys[key]: 0 for a key never put, and for a property without a value
Get(seenKeys, key) == IF key \in DOMAIN seenKeys THEN seenKeys[key] ELSE 0

\* the loop over node.properties that fills seenKeys and unprocessedProperties.
\* A property node has no field `value` (only keyNode, valueNode and
\* colonOffset), so propertyNode.value is undefined and the merge-key branch,
\* which reads propertyNode.value["properties"] (or ["items"]), throws a
\* TypeError as soon as the value of "<<" is an object or an array.
RECURSIVE seenKeysLoop(_, _, _, _)
seenKeysLoop(d, properties, i, acc) ==
  IF acc.threw \/ i > Len(properties) THEN acc
  ELSE LET propertyNode == d[properties[i]]
           key == d[propertyNode.keyNode].value.s
       IN seenKeysLoop(d, properties, i + 1,
            IF key = "<<" /\ propertyNode.valueNode # 0
              THEN IF d[propertyNode.valueNode].type \in {"object", "array"}
                        /\ propertyNode.value = VUndefined
                     THEN [acc EXCEPT !.threw = TRUE]
                   ELSE acc
            ELSE [acc EXCEPT
                    !.seenKeys = Put(@, key, propertyNode.valueNode),
                    !.unprocessedProperties = Append(@, key)])

\* a variant of propertyProcessed that takes out the first occurrence only
propertyProcessedFirstOnly(unprocessedProperties, prop) ==
  LET hits == {i \in DOMAIN unprocessedProperties : unprocessedProperties[i] = prop}
      first == CHOOSE i \in hits : \A j \in hits : i <= j
  IN IF hits = {} THEN unprocessedProperties
     ELSE SubSeq(unprocessedProperties, 1, first - 1)
            \o SubSeq(unprocessedProperties, first + 1, Len(unprocessedProperties))

\* propertyProcessed(prop): every occurrence of prop leaves unprocessedProperties
propertyProcessed(unprocessedProperties, prop) ==
  SelectSeq(unprocessedProperties, LAMBDA k : k # prop)

\* schema.required
RECURSIVE requiredLoop(_, _, _, _, _, _)
requiredLoop(d, n, required, seenKeys, i, vr) ==
  IF i > Len(required) THEN vr
  ELSE LET isValue == d[n].parent # 0 /\ d[d[n].parent].type = "property"
           keyNode == d[d[d[n].parent].keyNode]
           location == IF isValue THEN [offset |-> keyNode.offset, length |-> keyNode.length]
                       ELSE [offset |-> d[n].offset, length |-> 1]
       IN requiredLoop(d, n, required, seenKeys, i + 1,
            IF Get(seenKeys, required[i]) = 0
              THEN push(vr, Problem(location.offset, location.length, NoCode,
                              "Missing property \"" \o required[i] \o "\"."))
            ELSE vr)

\* what schema.properties and schema.patternProperties do with the value
\* node child of a key they name
propertyMatch(d, child, propertySchema, propertyName, schema, st, g) ==
  IF child = 0 THEN st
  ELSE IF isBoolean(propertySchema)
    THEN IF propertySchema.bool = "false"
           THEN LET keyNode == d[d[d[child].parent].keyNode]
                IN Ok(push(st.vr, Problem(keyNode.offset, keyNode.length, NoCode,
                        OrMessage(schema.errorMessage,
                          "Property " \o propertyName \o " is not allowed."))), st.col)
         ELSE Ok([st.vr EXCEPT !.propertiesMatches = @ + 1,
                               !.propertiesValueMatches = @ + 1], st.col)
  ELSE validateChild(d, child, propertySchema, st, g)

\* the object validator's threaded state: st plus unprocessedProperties
WithUnprocessed(st, un) == [st |-> st, un |-> un]

\* a variant of the properties step that takes the keys of schema.properties
\* from the last to the first
propertiesLoopLastKeyFirst(d, schema, seenKeys, i, os, g) ==
  IF os.st.threw \/ i > Len(schema.properties) THEN os
  ELSE LET k == Len(schema.properties) + 1 - i
           propertyName == schema.properties[k].key
       IN propertiesLoopLastKeyFirst(d, schema, seenKeys, i + 1,
            WithUnprocessed(
              propertyMatch(d, Get(seenKeys, propertyName), schema.properties[k].schema,
                            propertyName, schema, os.st, g),
              propertyProcessed(os.un, propertyName)), g)

\* schema.properties, in the order of Object.keys
propertiesLoop(d, schema, seenKeys, i, os, g) ==
  IF os.st.threw \/ i > Len(schema.properties) THEN os
  ELSE LET propertyName == schema.properties[i].key
       IN propertiesLoop(d, schema, seenKeys, i + 1,
            WithUnprocessed(
              propertyMatch(d, Get(seenKeys, propertyName), schema.properties[i].schema,
                            propertyName, schema, os.st, g),
              propertyProcessed(os.un, propertyName)), g)

\* the inner loop of schema.patternProperties, over the snapshot names
patternNamesLoop(d, schema, seenKeys, p, names, j, os, g) ==
  IF os.st.threw \/ j > Len(names) THEN os
  ELSE patternNamesLoop(d, schema, seenKeys, p, names, j + 1,
         IF RegExpTest(schema.patternProperties[p].key, names[j])
           THEN WithUnprocessed(
                  propertyMatch(d, Get(seenKeys, names[j]),
                                schema.patternProperties[p].schema,
                                names[j], schema, os.st, g),
                  propertyProcessed(os.un, names[j]))
         ELSE os, g)

\* schema.patternProperties
patternLoop(d, schema, seenKeys, p, os, g) ==
  IF os.st.threw \/ p > Len(schema.patternProperties) THEN os
  ELSE IF ~RegExpValid(schema.patternProperties[p].key)
    THEN WithUnprocessed(Threw, os.un)
  ELSE patternLoop(d, schema, seenKeys, p + 1,
         patternNamesLoop(d, schema, seenKeys, p, os.un, 1, os, g), g)

\* schema.additionalProperties, over what is left in unprocessedProperties
additionalLoop(d, schema, seenKeys, un, i, st, g) ==
  IF st.threw \/ i > Len(un) THEN st
  ELSE LET child == Get(seenKeys, un[i])
           keyNode == d[d[d[child].parent].keyNode]
       IN additionalLoop(d, schema, seenKeys, un, i + 1,
            IF child = 0 THEN st
            ELSE IF schema.additionalProperties[1].bool = "obj"
              THEN validateChild(d, child, schema.additionalProperties[1], st, g)
            ELSE Ok(push(st.vr, Problem(keyNode.offset, keyNode.length, NoCode,
                      OrMessage(schema.errorMessage,
                        "Property " \o un[i] \o " is not allowed."))), st.col),
            g)

\* the names a dependency of the array form requires
RECURSIVE requiredPropsLoop(_, _, _, _, _, _, _)
requiredPropsLoop(d, n, key, propertyDep, seenKeys, i, vr) ==
  IF i > Len(propertyDep) THEN vr
  ELSE requiredPropsLoop(d, n, key, propertyDep, seenKeys, i + 1,
         IF Get(seenKeys, propertyDep[i]) = 0
           THEN push(vr, Problem(d[n].offset, d[n].length, NoCode,
                  "Object is missing property " \o propertyDep[i]
                    \o " required by property " \o key \o "."))
         ELSE [vr EXCEPT !.propertiesValueMatches = @ + 1])

\* a variant of the dependencies step that validates the node again against
\* the schema itself, its dependencies removed, in place of the dependency
dependenciesLoopWholeSchema(d, n, schema, seenKeys, i, st, g) ==
  IF st.threw \/ i > Len(schema.dependencies) THEN st
  ELSE LET dep == schema.dependencies[i]
       IN dependenciesLoopWholeSchema(d, n, schema, seenKeys, i + 1,
            IF Get(seenKeys, dep.key) = 0 THEN st
            ELSE IF dep.isArray
              THEN Ok(requiredPropsLoop(d, n, dep.key, dep.names, seenKeys, 1, st.vr),
                      st.col)
            ELSE validateChild(d, n, [schema EXCEPT !.dependencies = <<>>], st, g),
            g)

\* schema.dependencies
dependenciesLoop(d, n, schema, seenKeys, i, st, g) ==
  IF st.threw \/ i > Len(schema.dependencies) THEN st
  ELSE LET dep == schema.dependencies[i]
       IN dependenciesLoop(d, n, schema, seenKeys, i + 1,
            IF Get(seenKeys, dep.key) = 0 THEN st
            ELSE IF dep.isArray
              THEN Ok(requiredPropsLoop(d, n, dep.key, dep.names, seenKeys, 1, st.vr),
                      st.col)
            ELSE validateChild(d, n, asSchema(dep.schema), st, g),
            g)

\* schema.propertyNames: every key node, into the same result, no records
propertyNamesLoop(d, n, propertyNames, i, st) ==
  IF st.threw \/ i > Len(d[n].properties) THEN st
  ELSE LET sub == validate(d, d[d[n].properties[i]].keyNode, propertyNames, st.vr,
                           NoOpSchemaCollector, TopContext)
       IN propertyNamesLoop(d, n, propertyNames, i + 1,
            IF sub.threw THEN Threw ELSE Ok(sub.vr, st.col))

validateObjectNode(d, n, schema, st, g) ==
  LET node == d[n]
      at(message) == Problem(node.offset, node.length, NoCode, message)
      \* required
      s1(keys) == Ok(requiredLoop(d, n, schema.required, keys.seenKeys, 1, st.vr), st.col)
      \* properties, patternProperties
      o3(keys) ==
        patternLoop(d, schema, keys.seenKeys, 1,
          propertiesLoop(d, schema, keys.seenKeys, 1,
            WithUnprocessed(s1(keys), keys.unprocessedProperties), g), g)
      \* additionalProperties
      s4(keys, o) ==
        IF o.st.threw THEN o.st
        ELSE IF schema.additionalProperties # None
                  /\ schema.additionalProperties[1].bool # "true"
          THEN additionalLoop(d, schema, keys.seenKeys, o.un, 1, o.st, g)
        ELSE o.st
      r5(r) == IF schema.maxProperties # None
                    /\ Len(node.properties) > schema.maxProperties[1]
                 THEN push(r, at("Object has more properties than limit of "
                                   \o ToString(schema.maxProperties[1]) \o "."))
               ELSE r
      r6(r) == IF schema.minProperties # None
                    /\ Len(node.properties) < schema.minProperties[1]
                 THEN push(r, at("Object has fewer properties than the required number of "
                                   \o ToString(schema.minProperties[1])))
               ELSE r
      \* dependencies
      s7(keys, s) ==
        IF s.threw THEN s
        ELSE dependenciesLoop(d, n, schema, keys.seenKeys, 1, Ok(r6(r5(s.vr)), s.col), g)
      \* propertyNames
      s8(s) == IF s.threw \/ schema.propertyNames = None THEN s
               ELSE propertyNamesLoop(d, n, asSchema(schema.propertyNames[1]), 1, s)
      withKeys(keys) ==
        IF keys.threw THEN Threw ELSE s8(s7(keys, s4(keys, o3(keys))))
  IN withKeys(seenKeysLoop(d, node.properties, 1,
                [seenKeys |-> <<>>, unprocessedProperties |-> <<>>, threw |-> FALSE]))

(***************************************************************************)
(* validate(node, schema, validationResult, matchingSchemas)               *)
(***************************************************************************)
validate(d, n, schema, vr, col, g) ==
  LET s1 == CASE d[n].type = "object" ->
                     validateObjectNode(d, n, schema, Ok(vr, col), Inside(g, n, schema))
              [] d[n].type = "array" ->
                     validateArrayNode(d, n, schema, Ok(vr, col), Inside(g, n, schema))
              [] d[n].type = "string" -> validateStringNode(d, n, schema, vr, col)
              [] d[n].type = "number" -> Ok(validateNumberNode(d, n, schema, vr), col)
              [] OTHER -> Ok(vr, col)
      s2(s) == IF s.threw THEN s
               ELSE validateNode(d, n, schema, s, Inside(g, n, schema))
      s3(s) == IF s.threw THEN s
               ELSE Ok(s.vr, add(s.col, ApplicableSchema(n, schema, g)))
  IN IF n = 0 \/ ~include(col, d, n) THEN Ok(vr, col)
     ELSE IF d[n].type = "property"
       THEN validate(d, d[n].valueNode, schema, vr, col, Inside(g, n, schema))
     ELSE s3(s2(s1))

(***************************************************************************)
(* The JSONDocument facade.  root is node 1 of the table, or null (0) for  *)
(* an empty table.  A Diagnostic keeps the problem's offsets as its range  *)
(* (textDocument.positionAt is the editor's).                              *)
(***************************************************************************)
Root(d) == IF Len(d) = 0 THEN 0 ELSE 1

\* `root && schema`: the boolean schema false is falsy
Truthy(schema) == schema.bool # "false"

Diagnostic(p) ==
  [range |-> [start |-> p.location.offset, end |-> p.location.offset + p.location.length],
   message |-> p.message, severity |-> p.severity, code |-> p.code]

NotRun == [status |-> "none", diagnostics |-> <<>>]

\* JSONDocument.validate(textDocument, schema)
JSONDocumentValidate(d, schema) ==
  IF Root(d) # 0 /\ Truthy(schema)
    THEN LET r == validate(d, Root(d), schema, NewValidationResult,
                           NoOpSchemaCollector, TopContext)
         IN IF r.threw THEN [status |-> "threw", diagnostics |-> <<>>]
            ELSE [status |-> "returned",
                  diagnostics |-> [i \in DOMAIN r.vr.problems |-> Diagnostic(r.vr.problems[i])]]
  ELSE [status |-> "null", diagnostics |-> <<>>]

NotMatched ==
  [status |-> "none", focusOffset |-> -1, exclude |-> 0, schemas |-> <<>>,
   problems |-> <<>>]

\* JSONDocument.getMatchingSchemas(schema, focusOffset, exclude): the records
\* returned, and (history) the problems of the ValidationResult it discards
JSONDocumentGetMatchingSchemas(d, schema, focusOffset, exclude) ==
  LET matchingSchemas == SchemaCollector(focusOffset, exclude)
      r == validate(d, Root(d), schema, NewValidationResult, matchingSchemas, TopContext)
      ran == Root(d) # 0 /\ Truthy(schema)
  IN IF ran /\ r.threw
       THEN [status |-> "threw", focusOffset |-> focusOffset, exclude |-> exclude,
             schemas |-> <<>>, problems |-> <<>>]
     ELSE [status |-> "returned", focusOffset |-> focusOffset, exclude |-> exclude,
           schemas |-> IF ran THEN r.col.schemas ELSE <<>>,
           problems |-> IF ran THEN r.vr.problems ELSE <<>>]

\* Json.findNodeAtOffset, as the copy kept in comments beside contains has it:
\* the deepest node that contains the offset, children scanned in order up
\* to the first one that starts past the offset; 0 is undefined
RECURSIVE findNodeAtOffset(_, _, _, _)
RECURSIVE findInChildren(_, _, _, _, _)
\* a variant of findInChildren that stops at a child that starts at the offset
findInChildrenBefore(d, cs, i, offset, includeRightBound) ==
  IF i > Len(cs) \/ d[cs[i]].offset >= offset THEN 0
  ELSE LET item == findNodeAtOffset(d, cs[i], offset, includeRightBound)
       IN IF item # 0 THEN item
          ELSE findInChildren(d, cs, i + 1, offset, includeRightBound)

findInChildren(d, cs, i, offset, includeRightBound) ==
  IF i > Len(cs) \/ d[cs[i]].offset > offset THEN 0
  ELSE LET item == findNodeAtOffset(d, cs[i], offset, includeRightBound)
       IN IF item # 0 THEN item
          ELSE findInChildren(d, cs, i + 1, offset, includeRightBound)

findNodeAtOffset(d, n, offset, includeRightBound) ==
  IF contains(d, n, offset, includeRightBound)
    THEN LET item == findInChildren(d, children(d, n), 1, offset, includeRightBound)
         IN IF item # 0 THEN item ELSE n
  ELSE 0

NotLooked == [status |-> "none", offset |-> 0, includeRightBound |-> FALSE, node |-> 0]

\* JSONDocument.getNodeFromOffset(offset, includeRightBound)
JSONDocumentGetNodeFromOffset(d, offset, includeRightBound) ==
  [status |-> "returned", offset |-> offset, includeRightBound |-> includeRightBound,
   node |-> IF Root(d) # 0 THEN findNodeAtOffset(d, Root(d), offset, includeRightBound)
            ELSE 0]

\* doVisit of JSONDocument.visit: the visitor returns false on the nodes of
\* falseAt; the nodes it was called on so far, and ctn
RECURSIVE doVisit(_, _, _, _)
RECURSIVE visitChildren(_, _, _, _, _)
visitChildren(d, cs, i, falseAt, acc) ==
  IF i > Len(cs) \/ ~acc.ctn THEN acc
  ELSE visitChildren(d, cs, i + 1, falseAt, doVisit(d, cs[i], falseAt, acc.order))

doVisit(d, n, falseAt, order) ==
  visitChildren(d, children(d, n), 1, falseAt,
                [ctn |-> n \notin falseAt, order |-> Append(order, n)])

NotVisited == [status |-> "none", falseAt |-> {}, order |-> <<>>]

\* JSONDocument.visit(visitor)
JSONDocumentVisit(d, falseAt) ==
  [status |-> "returned", falseAt |-> falseAt,
   order |-> IF Root(d) # 0 THEN doVisit(d, Root(d), falseAt, <<>>).order ELSE <<>>]

(***************************************************************************)
(* The schemas of the model.                                               *)
(***************************************************************************)
\* {type:"string"}
SString == [EmptySchema EXCEPT !.type = <<"string">>]
\* {type:"number", minimum:10}
SNumberMin10 == [EmptySchema EXCEPT !.type = <<"number">>, !.minimum = Some(10)]
\* {properties:{x:{type:"number"}, y:{type:"string"}}}
SPropsXY ==
  [EmptySchema EXCEPT !.properties =
     << [key |-> "x", schema |-> [EmptySchema EXCEPT !.type = <<"number">>]],
        [key |-> "y", schema |-> SString] >>]
\* {properties:{x:{const:1}}}
SHasX ==
  [EmptySchema EXCEPT !.properties =
     << [key |-> "x", schema |-> [EmptySchema EXCEPT !.const = Some(VNum(1))]] >>]
\* {enum:[5,"abc"]}
SEnum5 == [EmptySchema EXCEPT !.enum = Some(<<VNum(5), VStr("abc")>>)]
\* {type:"object", required:["a","b"]}
SRequiredAB == [EmptySchema EXCEPT !.type = <<"object">>, !.required = <<"a", "b">>]
\* {type:"object", properties:{x:{type:"string"}}}
SPropX ==
  [EmptySchema EXCEPT !.type = <<"object">>,
     !.properties = << [key |-> "x", schema |-> SString] >>]
\* {properties:{x:{type:"string"}}}
SPropX2 ==
  [EmptySchema EXCEPT !.properties = << [key |-> "x", schema |-> SString] >>]
\* {type:"object", required:["z"], additionalProperties:false}
SClosed ==
  [EmptySchema EXCEPT !.type = <<"object">>, !.required = <<"z">>,
     !.additionalProperties = Some(FalseSchema)]
\* {enum:["x","y"]}
SEnumXY == [EmptySchema EXCEPT !.enum = Some(<<VStr("x"), VStr("y")>>)]
\* {type:"array", uniqueItems:true, minItems:4}
SUnique ==
  [EmptySchema EXCEPT !.type = <<"array">>, !.uniqueItems = TRUE, !.minItems = Some(4)]
\* {properties:{c:{oneOf:[{},true], deprecationMessage:"old"}}}
SPropC ==
  [EmptySchema EXCEPT !.properties =
     << [key |-> "c", schema |->
           [EmptySchema EXCEPT !.oneOf = <<EmptySchema, TrueSchema>>,
                               !.deprecationMessage = "old"]] >>]

\* {anyOf:[{properties:{a:{properties:{b:{type:"string"}}}}}]}
SDeep ==
  [EmptySchema EXCEPT !.anyOf =
     << [EmptySchema EXCEPT !.properties =
           << [key |-> "a", schema |->
                 [EmptySchema EXCEPT !.properties =
                    << [key |-> "b", schema |-> SString] >>]] >>] >>]

\* {type:"string", pattern:"(", maxLength:2}
SBadPattern ==
  [EmptySchema EXCEPT !.type = <<"string">>, !.pattern = Some("("), !.maxLength = Some(2)]
\* {patternProperties:{"(":{}}, required:["z"]}
SBadPatternProperties ==
  [EmptySchema EXCEPT !.patternProperties = << [key |-> "(", schema |-> EmptySchema] >>,
                      !.required = <<"z">>]

\* {dependencies:{x:{required:["z"]}, y:["x","w"]}}
SDependencies ==
  [EmptySchema EXCEPT !.dependencies =
     << [key |-> "x", isArray |-> FALSE, names |-> <<>>,
         schema |-> [EmptySchema EXCEPT !.required = <<"z">>]],
        [key |-> "y", isArray |-> TRUE, names |-> <<"x", "w">>, schema |-> EmptySchema] >>]

\* {properties:{y:{type:"string"}, x:{type:"string"}}}
SPropsYX ==
  [EmptySchema EXCEPT !.properties =
     << [key |-> "y", schema |-> SString], [key |-> "x", schema |-> SString] >>]

\* {type:"string", maximum:0, allOf:[{type:"boolean"}], not:{},
\*  anyOf:[{type:"null"}], oneOf:[{},{}], if:{}, then:{type:"array"},
\*  enum:["a"], const:"b", deprecationMessage:"old"}
SKeywords ==
  [EmptySchema EXCEPT
     !.type = <<"string">>, !.maximum = Some(0),
     !.allOf = << [EmptySchema EXCEPT !.type = <<"boolean">>] >>,
     !.not = Some(EmptySchema),
     !.anyOf = << [EmptySchema EXCEPT !.type = <<"null">>] >>,
     !.oneOf = <<EmptySchema, EmptySchema>>,
     !.if = Some(EmptySchema),
     !.then = Some([EmptySchema EXCEPT !.type = <<"array">>]),
     !.enum = Some(<<VStr("a")>>), !.const = Some(VStr("b")),
     !.deprecationMessage = "old"]
\* {properties:{x:SKeywords}}
SPropKeywords ==
  [EmptySchema EXCEPT !.properties = << [key |-> "x", schema |-> SKeywords] >>]

\* {required:["y","z"]}
SRequiredYZ == [EmptySchema EXCEPT !.required = <<"y", "z">>]

\* {properties:{y:{}}, patternProperties:{"^a":{}}, additionalProperties:false}
SClosedY ==
  [EmptySchema EXCEPT
     !.properties = << [key |-> "y", schema |-> EmptySchema] >>,
     !.patternProperties = << [key |-> "^a", schema |-> EmptySchema] >>,
     !.additionalProperties = Some(FalseSchema)]

\* {if:{required:["x"]}, then:{properties:{x:{type:"string"}}},
\*  else:{type:"string"}}
SIfThenElse ==
  [EmptySchema EXCEPT
     !.if = Some([EmptySchema EXCEPT !.required = <<"x">>]),
     !.then = Some(SPropX2),
     !.else = Some(SString)]

\* {not:{enum:[5,"abc"]}}
SNotEnum == [EmptySchema EXCEPT !.not = Some(SEnum5)]

\* {anyOf:[{enum:[5,"abc"]}, {type:"string"}, {enum:["x","y"]}]}
SAnyOfEnums == [EmptySchema EXCEPT !.anyOf = <<SEnum5, SString, SEnumXY>>]
\* {oneOf:[{type:"string"}, {enum:[5,"abc"]}, {enum:["x","y"]}]}
SOneOfStringEnums == [EmptySchema EXCEPT !.oneOf = <<SString, SEnum5, SEnumXY>>]

\* {oneOf:[{type:"string"}, SPropsXY, SPropsYX]}
SOneOfTies == [EmptySchema EXCEPT !.oneOf = <<SString, SPropsXY, SPropsYX>>]

BaseSchemas ==
  {SRequiredYZ, SClosedY, SIfThenElse, SNotEnum, SAnyOfEnums, SOneOfStringEnums,
   SOneOfTies,
   EmptySchema, TrueSchema, FalseSchema, SString, SNumberMin10, SPropsXY, SHasX, SEnum5,
   SRequiredAB, SPropX, SClosed, SEnumXY, SUnique, SPropC, SDeep,
   SBadPattern, SBadPatternProperties, SDependencies, SPropsYX, SKeywords, SPropKeywords}

\* the alternatives of the anyOf and oneOf lists
AltPool == {EmptySchema, SString, SNumberMin10, SPropsXY, SHasX, SEnum5}

AltLists == UNION {[1..k -> AltPool] : k \in 1..MaxAlts}

AnyOfSchemas == {[EmptySchema EXCEPT !.anyOf = alts] : alts \in AltLists}
OneOfSchemas == {[EmptySchema EXCEPT !.oneOf = alts] : alts \in AltLists}

\* one keyword around the schema reference s
Wrap(s) ==
  { [EmptySchema EXCEPT !.not = Some(s)],
    [EmptySchema EXCEPT !.allOf = <<s>>],
    [EmptySchema EXCEPT !.anyOf = <<s>>],
    [EmptySchema EXCEPT !.oneOf = <<s>>],
    [EmptySchema EXCEPT !.if = Some(s)],
    [EmptySchema EXCEPT !.if = Some(TrueSchema), !.then = Some(s)],
    [EmptySchema EXCEPT !.if = Some(FalseSchema), !.else = Some(s)],
    [EmptySchema EXCEPT !.properties = << [key |-> "a", schema |-> s],
                                          [key |-> "x", schema |-> s] >>],
    [EmptySchema EXCEPT !.items = Some(s)] }

RECURSIVE Nested(_)
Nested(depth) ==
  IF depth = 0 THEN {EmptySchema, FalseSchema, SNumberMin10}
  ELSE UNION {Wrap(s) : s \in Nested(depth - 1)}

NestedSchemas == UNION {Nested(k) : k \in 1..MaxDepth}

Schemas == BaseSchemas \cup AnyOfSchemas \cup OneOfSchemas \cup NestedSchemas

\* no root: an empty document
DocNone == <<>>

Documents == {Docs[i] : i \in DOMAIN Docs} \cup {DocNone}

(***************************************************************************)
(* The state: a JSONDocument (its node table) and a schema, what the       *)
(* facade's validate returned, what its getMatchingSchemas returned, and   *)
(* the three ValidationResults a caller compares, what getNodeFromOffset   *)
(* returned, and the nodes a visitor was called on.                        *)
(***************************************************************************)
VARIABLES document, schema, diagnostics, matching, results, lookup, visited

vars == <<document, schema, diagnostics, matching, results, lookup, visited>>

NoResults == [a |-> NewValidationResult, b |-> NewValidationResult,
              c |-> NewValidationResult, compared |-> FALSE, merged |-> FALSE,
              ab |-> 0, ba |-> 0, bc |-> 0, ac |-> 0, aa |-> 0]

Init ==
  /\ document \in Documents
  /\ schema \in Schemas
  /\ diagnostics = NotRun
  /\ matching = NotMatched
  /\ results = NoResults
  /\ lookup = NotLooked
  /\ visited = NotVisited

Validate ==
  /\ diagnostics.status = "none"
  /\ diagnostics' = JSONDocumentValidate(document, schema)
  /\ UNCHANGED <<document, schema, matching, results, lookup, visited>>

GetMatchingSchemas(focusOffset, exclude) ==
  /\ matching.status = "none"
  /\ matching' = JSONDocumentGetMatchingSchemas(document, schema, focusOffset, exclude)
  /\ UNCHANGED <<document, schema, diagnostics, results, lookup, visited>>

Next ==
  \/ Validate
  \/ GetMatchingSchemas(-1, 0)

Spec == Init /\ [][Next]_vars

(***************************************************************************)
(* A second specification: getMatchingSchemas with every focus offset and  *)
(* every exclude node of the bounds.                                       *)
(***************************************************************************)
FocusSchemas == BaseSchemas \cup NestedSchemas
                  \cup {s \in AnyOfSchemas \cup OneOfSchemas : Len(s.anyOf \o s.oneOf) = 1}

InitFocus ==
  /\ document \in Documents
  /\ schema \in FocusSchemas
  /\ diagnostics = NotRun
  /\ matching = NotMatched
  /\ results = NoResults
  /\ lookup = NotLooked
  /\ visited = NotVisited

NextFocus ==
  \E focusOffset \in -1..MaxFocus, exclude \in 0..MaxExclude :
    /\ exclude <= Len(document)
    /\ GetMatchingSchemas(focusOffset, exclude)

SpecFocus == InitFocus /\ [][NextFocus]_vars

(***************************************************************************)
(* A third specification: compare() on ValidationResults drawn from the    *)
(* scores 0..MaxScore, with and without a problem, with and without an     *)
(* enum match.                                                             *)
(***************************************************************************)
SomeProblem == Problem(0, 1, NoCode, "Incorrect type. Expected \"string\".")

DrawnResults ==
  [problems : {<<>>, <<SomeProblem>>},
   propertiesMatches : 0..MaxScore,
   propertiesValueMatches : 0..MaxScore,
   primaryValueMatches : 0..MaxScore,
   enumValueMatch : BOOLEAN,
   enumValues : {None}]

InitCompare ==
  /\ document = DocNone
  /\ schema = EmptySchema
  /\ diagnostics = NotRun
  /\ matching = NotMatched
  /\ \E a \in DrawnResults, b \in DrawnResults, c \in DrawnResults :
       results = [NoResults EXCEPT !.a = a, !.b = b, !.c = c]
  /\ lookup = NotLooked
  /\ visited = NotVisited

Compare ==
  /\ ~results.compared
  /\ results' = [results EXCEPT
                   !.compared = TRUE,
                   !.ab = compare(results.a, results.b),
                   !.ba = compare(results.b, results.a),
                   !.bc = compare(results.b, results.c),
                   !.ac = compare(results.a, results.c),
                   !.aa = compare(results.a, results.a)]
  /\ UNCHANGED <<document, schema, diagnostics, matching, lookup, visited>>

NextCompare == Compare

(***************************************************************************)
(* The specification of mergePropertyMatch alone: a is the result of the   *)
(* object, b the result of one of its property values (with no enum, an    *)
(* empty enum, an enum of one value or of two), c is a after               *)
(* a.mergePropertyMatch(b).                                                *)
(***************************************************************************)
PropertyResults ==
  [problems : {<<>>, <<SomeProblem>>},
   propertiesMatches : 0..MaxScore,
   propertiesValueMatches : 0..MaxScore,
   primaryValueMatches : 0..MaxScore,
   enumValueMatch : BOOLEAN,
   enumValues : {None, Some(<<>>), Some(<<VNum(5)>>), Some(<<VNum(5), VStr("abc")>>)}]

InitMerge ==
  /\ document = DocNone
  /\ schema = EmptySchema
  /\ diagnostics = NotRun
  /\ matching = NotMatched
  /\ \E a \in PropertyResults, b \in PropertyResults :
       results = [NoResults EXCEPT !.a = a, !.b = b, !.c = a]
  /\ lookup = NotLooked
  /\ visited = NotVisited

MergePropertyMatch ==
  /\ ~results.merged
  /\ results' = [results EXCEPT
                   !.merged = TRUE,
                   !.c = mergePropertyMatch(results.a, results.b)]
  /\ UNCHANGED <<document, schema, diagnostics, matching, lookup, visited>>

NextMerge == MergePropertyMatch

SpecMerge == InitMerge /\ [][NextMerge]_vars

SpecCompare == InitCompare /\ [][NextCompare]_vars

(***************************************************************************)
(* A fourth specification: the two tree operations of the facade, with     *)
(* every offset of -1..MaxOffset and every visitor that returns false on   *)
(* at most MaxFalse nodes.                                                 *)
(***************************************************************************)
InitTree ==
  /\ document \in Documents
  /\ schema = EmptySchema
  /\ diagnostics = NotRun
  /\ matching = NotMatched
  /\ results = NoResults
  /\ lookup = NotLooked
  /\ visited = NotVisited

GetNodeFromOffset(offset, includeRightBound) ==
  /\ lookup.status = "none"
  /\ lookup' = JSONDocumentGetNodeFromOffset(document, offset, includeRightBound)
  /\ UNCHANGED <<document, schema, diagnostics, matching, results, visited>>

Visit(falseAt) ==
  /\ visited.status = "none"
  /\ visited' = JSONDocumentVisit(document, falseAt)
  /\ UNCHANGED <<document, schema, diagnostics, matching, results, lookup>>

NextTree ==
  \/ \E offset \in -1..MaxOffset, includeRightBound \in BOOLEAN :
       GetNodeFromOffset(offset, includeRightBound)
  \/ \E falseAt \in SUBSET DOMAIN document :
       Cardinality(falseAt) <= MaxFalse /\ Visit(falseAt)

SpecTree == InitTree /\ [][NextTree]_vars

(***************************************************************************)
(* Claims.                                                                 *)
(***************************************************************************)
\* {anyOf:[{type:"string"},{type:"number",minimum:10}]}
C1Schema == [EmptySchema EXCEPT !.anyOf = <<SString, SNumberMin10>>]

C1Validated == document = DocFive /\ schema = C1Schema /\ diagnostics.status # "none"

\* C1 (as amended): validating the number 5 against
\* {anyOf:[{type:"string"},{type:"number",minimum:10}]} yields exactly one
\* diagnostic, and it is the string branch's type-mismatch warning: both
\* branches fail with equal scores, compare returns 0, and the first
\* alternative stays the best match.
C1_FirstBranchReported ==
  C1Validated =>
    /\ diagnostics.status = "returned"
    /\ diagnostics.diagnostics =
         << Diagnostic(Problem(0, 1, NoCode, "Incorrect type. Expected \"string\".")) >>

C1_Witness == C1Validated /\ diagnostics.status = "returned"

\* C1 as stated: the one diagnostic is the number branch's minimum warning
C1_NumberBranchReported ==
  C1Validated =>
    /\ diagnostics.status = "returned"
    /\ diagnostics.diagnostics =
         << Diagnostic(Problem(0, 1, NoCode, "Value is below the minimum of 10.")) >>

\* C2 as stated: {"<<": {"a":1}, "b":2} against {type:"object",
\* required:["a","b"]} completes normally and produces no diagnostics
C2_MergeKeyAdopted ==
  (document = DocMerge /\ schema = SRequiredAB /\ diagnostics.status # "none") =>
    /\ diagnostics.status = "returned"
    /\ diagnostics.diagnostics = <<>>

Odd(k) == k % 2 = 1

\* C3: for every record returned by getMatchingSchemas, inverted is true iff
\* the number of `not` keywords between the top-level schema and the record's
\* schema is odd
C3_InvertedIffOddNots ==
  \A i \in DOMAIN matching.schemas :
    (matching.schemas[i].inverted = "true") <=> Odd(matching.schemas[i].nots)

C3_Witness ==
  /\ matching.status = "returned"
  /\ \E i, j \in DOMAIN matching.schemas :
       /\ matching.schemas[i].nots = 1 /\ matching.schemas[i].inverted = "true"
       /\ matching.schemas[j].nots = 2 /\ matching.schemas[j].inverted = "false"

Count(seq, r) == Cardinality({i \in DOMAIN seq : seq[i] = r})

\* the sub-validation testAlternatives runs for alternative i of the
\* top-level schema's list, with the sub-collector of the facade's collector
SubRun(alternatives, i) ==
  validate(document, Root(document), asSchema(alternatives[i]), NewValidationResult,
           newSub(SchemaCollector(matching.focusOffset, matching.exclude)),
           UnderSub(Inside(TopContext, Root(document), schema)))

CleanAlternatives(alternatives) ==
  {i \in DOMAIN alternatives : ~hasProblems(SubRun(alternatives, i).vr)}

RECURSIVE CountInRuns(_, _, _)
CountInRuns(alternatives, indices, r) ==
  IF indices = {} THEN 0
  ELSE LET i == CHOOSE x \in indices : TRUE
       IN Count(SubRun(alternatives, i).col.schemas, r)
            + CountInRuns(alternatives, indices \ {i}, r)

\* C4: under anyOf, when two or more alternatives validate the node with no
\* problems, every record collected while validating one of them is in the
\* outer collector after the step (as many times as the clean alternatives
\* collected it), wherever the clean and the failing alternatives stand
C4_CleanAlternativesAllRecorded ==
  (matching.status = "returned" /\ Root(document) # 0 /\ Truthy(schema)
     /\ Cardinality(CleanAlternatives(schema.anyOf)) >= 2) =>
    \A i \in CleanAlternatives(schema.anyOf) :
      \A k \in DOMAIN SubRun(schema.anyOf, i).col.schemas :
        LET r == SubRun(schema.anyOf, i).col.schemas[k]
        IN Count(matching.schemas, r)
             >= CountInRuns(schema.anyOf, CleanAlternatives(schema.anyOf), r)

\* clean, failing, clean, and the last one brings a record of a child node
C4_Witness ==
  /\ matching.status = "returned"
  /\ Root(document) # 0
  /\ Len(schema.anyOf) = 3
  /\ CleanAlternatives(schema.anyOf) = {1, 3}
  /\ \E k \in DOMAIN SubRun(schema.anyOf, 3).col.schemas :
       SubRun(schema.anyOf, 3).col.schemas[k].node # Root(document)

\* the alternatives of the list that validate the root with no problems
\* (validate's collector)
CleanWithoutCollector(alternatives) ==
  {i \in DOMAIN alternatives :
     LET sub == validate(document, Root(document), asSchema(alternatives[i]),
                         NewValidationResult, NoOpSchemaCollector, TopContext)
     IN ~sub.threw /\ ~hasProblems(sub.vr)}

\* C5: under oneOf, when exactly one alternative validates the node with no
\* problems, the oneOf step adds no problem to the outer result: the
\* diagnostics are those of the schema without its oneOf
C5_OneCleanAlternativeNoProblem ==
  (diagnostics.status = "returned" /\ schema.oneOf # <<>>
     /\ Cardinality(CleanWithoutCollector(schema.oneOf)) = 1) =>
    diagnostics = JSONDocumentValidate(document, [schema EXCEPT !.oneOf = <<>>])

\* the clean alternative is the last of three, after two failing ones
C5_Witness ==
  /\ diagnostics.status = "returned"
  /\ Len(schema.oneOf) = 3
  /\ CleanWithoutCollector(schema.oneOf) = {3}

\* C6: the problems accumulated with a recording collector that has
\* focusOffset -1 and no exclude equal, element by element, those accumulated
\* with the no-op collector, and one run throws iff the other does
C6_CollectorIndependence ==
  (diagnostics.status \in {"returned", "threw"} /\ matching.status # "none"
     /\ matching.focusOffset = -1 /\ matching.exclude = 0) =>
    /\ matching.status = diagnostics.status
    /\ diagnostics.diagnostics =
         [i \in DOMAIN matching.problems |-> Diagnostic(matching.problems[i])]

\* both ran, over an anyOf, and there are problems to compare
C6_Witness ==
  /\ diagnostics.status = "returned"
  /\ matching.status = "returned"
  /\ Len(schema.anyOf) >= 2
  /\ Len(diagnostics.diagnostics) >= 1
  /\ Len(matching.schemas) >= 2

DocumentEnd == document[1].offset + document[1].length

\* C8 as stated: every problem has 0 <= offset <= offset+length <= end of the
\* document
C8_SpansInsideDocument ==
  diagnostics.status = "returned" =>
    \A i \in DOMAIN diagnostics.diagnostics :
      LET range == diagnostics.diagnostics[i].range
      IN 0 <= range.start /\ range.start <= range.end /\ range.end <= DocumentEnd

Sign(i) == IF i > 0 THEN 1 ELSE IF i < 0 THEN -1 ELSE 0

\* the five components of the order, best first, greater is better
Components(vr) ==
  << IF hasProblems(vr) THEN 0 ELSE 1,
     IF vr.enumValueMatch THEN 1 ELSE 0,
     vr.primaryValueMatches,
     vr.propertiesValueMatches,
     vr.propertiesMatches >>

\* the lexicographic order on the components: 1, -1 or 0
Lexicographic(a, b) ==
  LET ka == Components(a)
      kb == Components(b)
      differ == {i \in 1..5 : ka[i] # kb[i]}
      first == CHOOSE i \in differ : \A j \in differ : i <= j
  IN IF differ = {} THEN 0 ELSE IF ka[first] > kb[first] THEN 1 ELSE -1

\* C9: compare is the lexicographic order on (no problems, enumValueMatch,
\* primaryValueMatches, propertiesValueMatches, propertiesMatches); it is
\* antisymmetric in sign, 0 on equal arguments, and transitive
C9_CompareIsLexicographic ==
  results.compared =>
    /\ Sign(results.ab) = Lexicographic(results.a, results.b)
    /\ (results.ab = 0 <=> Components(results.a) = Components(results.b))
    /\ Sign(results.ab) = -Sign(results.ba)
    /\ results.aa = 0
    /\ (results.ab >= 0 /\ results.bc >= 0 => results.ac >= 0)
    /\ (results.ab > 0 /\ results.bc >= 0 => results.ac > 0)

\* a differs from b only in the last component, and a > b > c
C9_Witness ==
  /\ results.compared
  /\ results.ab > 0 /\ results.bc > 0 /\ results.ac > 0
  /\ hasProblems(results.b) /\ ~hasProblems(results.a)
  /\ results.c.propertiesMatches < results.b.propertiesMatches
  /\ results.c.propertiesValueMatches = results.b.propertiesValueMatches

ContainsFocus(n) == contains(document, n, matching.focusOffset, FALSE)

\* C10 (as amended): with focusOffset # -1, every record added to the
\* collector of getMatchingSchemas itself has a node that contains
\* focusOffset; the records gathered below a not, anyOf, oneOf or if come
\* from a newSub collector, whose focusOffset is -1, and are not restricted
C10_DirectRecordsContainFocus ==
  (matching.status = "returned" /\ matching.focusOffset # -1) =>
    \A i \in DOMAIN matching.schemas :
      matching.schemas[i].sub = 0 => ContainsFocus(matching.schemas[i].node)

\* a record of a child node was added directly, and another child was left out
C10_Witness ==
  /\ matching.status = "returned"
  /\ matching.focusOffset # -1
  /\ document = DocXY
  /\ \E i \in DOMAIN matching.schemas :
       matching.schemas[i].sub = 0 /\ matching.schemas[i].node = 4
  /\ ~\E i \in DOMAIN matching.schemas : matching.schemas[i].node = 7
  /\ \E i \in DOMAIN schema.properties : schema.properties[i].key = "y"

\* C10 as stated: every returned record's node contains focusOffset
C10_AllRecordsContainFocus ==
  (matching.status = "returned" /\ matching.focusOffset # -1) =>
    \A i \in DOMAIN matching.schemas : ContainsFocus(matching.schemas[i].node)

\* n is e or a descendant of e
RECURSIVE InSubtree(_, _, _)
InSubtree(d, n, e) ==
  IF n = 0 THEN FALSE
  ELSE IF n = e THEN TRUE
  ELSE InSubtree(d, d[n].parent, e)

IsValueNode(d, n) == d[n].type \notin {"property"} /\ (d[n].parent = 0 \/
                       d[d[n].parent].type = "array" \/ d[d[n].parent].valueNode = n)

\* C11: no record returned by getMatchingSchemas has node = exclude, and when
\* exclude is a value node no record has a node in exclude's subtree, also for
\* the records gathered below not, anyOf, oneOf and if
C11_ExcludedSubtreeNotRecorded ==
  (matching.status = "returned" /\ matching.exclude # 0) =>
    \A i \in DOMAIN matching.schemas :
      /\ matching.schemas[i].node # matching.exclude
      /\ IsValueNode(document, matching.exclude) =>
            ~InSubtree(document, matching.schemas[i].node, matching.exclude)

\* the value of a is excluded; without exclude the record of b's value, found
\* below an anyOf, is returned
C11_Witness ==
  /\ matching.status = "returned"
  /\ document = DocNested
  /\ matching.exclude = 4
  /\ matching.schemas # <<>>
  /\ LET all == JSONDocumentGetMatchingSchemas(document, schema, matching.focusOffset, 0)
     IN \E i \in DOMAIN all.schemas : all.schemas[i].node = 7 /\ all.schemas[i].sub > 0

\* C12 as stated, for the top-level schema: on a document with a root,
\* validate(true) returns an empty list and validate(false) returns at least
\* one diagnostic
C12_TopLevelBooleanSchemas ==
  (diagnostics.status # "none" /\ Root(document) # 0) =>
    /\ (schema = TrueSchema /\ diagnostics.status = "returned") =>
          diagnostics.diagnostics = <<>>
    /\ schema = FalseSchema =>
          (diagnostics.status = "returned" /\ Len(diagnostics.diagnostics) >= 1)

\* the schema without the patterns that are not regular expressions
WithoutInvalidRegex(sch) ==
  [sch EXCEPT
     !.pattern = IF @ # None /\ ~RegExpValid(@[1]) THEN None ELSE @,
     !.patternProperties = SelectSeq(@, LAMBDA pp : RegExpValid(pp.key))]

\* C13 as stated: when schema.pattern or a key of schema.patternProperties is
\* not a regular expression, validation does not throw, and the diagnostics
\* are those of the remaining keywords of the schema
C13_InvalidRegexIgnored ==
  (diagnostics.status # "none" /\ WithoutInvalidRegex(schema) # schema) =>
    diagnostics = JSONDocumentValidate(document, WithoutInvalidRegex(schema))

IsLeaf(d, n) == children(d, n) = <<>>

\* C14 (as amended): with includeRightBound false, getNodeFromOffset returns
\* the leaf that contains the offset when there is one (so it returns a leaf n
\* of length > 0 for n.offset), the node it returns contains the offset and
\* none of its children does, and it returns none for an offset outside the
\* root's span; a leaf of length 0 contains no offset and is never returned
C14_LookupFindsContainingLeaf ==
  (lookup.status = "returned" /\ ~lookup.includeRightBound /\ Root(document) # 0) =>
    /\ \A n \in DOMAIN document :
         (IsLeaf(document, n) /\ contains(document, n, lookup.offset, FALSE)) =>
           lookup.node = n
    /\ \A n \in DOMAIN document :
         (IsLeaf(document, n) /\ document[n].length > 0 /\ lookup.offset = document[n].offset)
           => lookup.node = n
    /\ lookup.node # 0 =>
         /\ contains(document, lookup.node, lookup.offset, FALSE)
         /\ \A c \in DOMAIN document :
              document[c].parent = lookup.node => ~contains(document, c, lookup.offset, FALSE)
    /\ ~contains(document, Root(document), lookup.offset, FALSE) => lookup.node = 0

\* the offset of the value of b, three levels below the root
C14_Witness ==
  /\ lookup.status = "returned"
  /\ ~lookup.includeRightBound
  /\ document = DocNested
  /\ lookup.offset = 5
  /\ lookup.node = 7

\* C14 as stated: getNodeFromOffset(n.offset) = n for any leaf n, also a leaf
\* of length 0
C14_LookupFindsEveryLeaf ==
  (lookup.status = "returned" /\ ~lookup.includeRightBound) =>
    \A n \in DOMAIN document :
      (IsLeaf(document, n) /\ lookup.offset = document[n].offset) => lookup.node = n

\* the nodes below n in pre-order, without the subtrees of the nodes the
\* visitor returns false on
RECURSIVE PreOrderPruned(_, _, _)
RECURSIVE PreOrderChildren(_, _, _, _)
PreOrderChildren(d, cs, i, falseAt) ==
  IF i > Len(cs) THEN <<>>
  ELSE PreOrderPruned(d, cs[i], falseAt) \o PreOrderChildren(d, cs, i + 1, falseAt)

PreOrderPruned(d, n, falseAt) ==
  <<n>> \o (IF n \in falseAt THEN <<>> ELSE PreOrderChildren(d, children(d, n), 1, falseAt))

\* C15 as stated: visit calls fn on the nodes in pre-order, each at most
\* once, and a false return only prunes that node's subtree: the nodes
\* outside it, such as its later siblings, are still visited
C15_VisitPrunesOnlySubtree ==
  (visited.status = "returned" /\ Root(document) # 0) =>
    visited.order = PreOrderPruned(document, Root(document), visited.falseAt)

(***************************************************************************)
(* C16.  The measure of the recursion: the schema references of a schema,  *)
(* the ones validate passes on with the same node, and the size of a       *)
(* schema (false counts as {"not": {}}, the schema asSchema makes of it).   *)
(***************************************************************************)
RECURSIVE SchemasOf(_, _)
SchemasOf(entries, i) ==
  IF i > Len(entries) THEN <<>> ELSE <<entries[i].schema>> \o SchemasOf(entries, i + 1)

RECURSIVE SchemaDependencies(_, _)
SchemaDependencies(deps, i) ==
  IF i > Len(deps) THEN <<>>
  ELSE (IF deps[i].isArray THEN <<>> ELSE <<deps[i].schema>>)
         \o SchemaDependencies(deps, i + 1)

\* the references validate passes on with the same node
SameNodeRefs(s) ==
  s.allOf \o s.not \o s.anyOf \o s.oneOf \o s.if \o s.then \o s.else
    \o SchemaDependencies(s.dependencies, 1)

\* the references validate passes on with a node below
ChildNodeRefs(s) ==
  s.items \o s.additionalItems \o s.contains \o SchemasOf(s.properties, 1)
    \o SchemasOf(s.patternProperties, 1) \o s.additionalProperties \o s.propertyNames

RECURSIVE SchemaSize(_)
RECURSIVE SizeOfAll(_, _)
SizeOfAll(refs, i) ==
  IF i > Len(refs) THEN 0 ELSE SchemaSize(refs[i]) + SizeOfAll(refs, i + 1)

SchemaSize(ref) ==
  IF ref.bool = "true" THEN 1
  ELSE IF ref.bool = "false" THEN 2
  ELSE 1 + SizeOfAll(SameNodeRefs(ref) \o ChildNodeRefs(ref), 1)

SameNodeSubschemas(s) == {asSchema(SameNodeRefs(s)[i]) : i \in DOMAIN SameNodeRefs(s)}

\* the call recorded by r descends: to a node strictly below its caller's
\* node, or with the same node to a strictly smaller subschema
Descends(d, r) ==
  LET c == r.caller[1]
  IN \/ r.node # c.node /\ InSubtree(d, r.node, c.node)
     \/ /\ r.node = c.node
        /\ r.schema \in SameNodeSubschemas(c.schema)
        /\ SchemaSize(r.schema) < SchemaSize(c.schema)

\* C16: validate and getMatchingSchemas terminate: the facade returns, the
\* only validate call without a caller is the facade's on the root, and every
\* other call moves to a node strictly below its caller's node or keeps the
\* node and takes a strictly smaller subschema of its caller's schema (allOf,
\* not, anyOf, oneOf, if/then/else and schema dependencies keep the node)
C16_RecursionDescends ==
  matching.status = "returned" =>
    \A i \in DOMAIN matching.schemas :
      LET r == matching.schemas[i]
      IN IF r.caller = None
           THEN r.node = Root(document) /\ r.schema = schema /\ r.sub = 0
         ELSE Descends(document, r)

\* a run where a schema dependency validated the root again and a property
\* schema validated a value below it
C16_Witness ==
  /\ matching.status = "returned"
  /\ schema.dependencies # <<>>
  /\ \E i \in DOMAIN matching.schemas :
       LET r == matching.schemas[i]
       IN r.caller # None /\ r.node = r.caller[1].node
            /\ r.schema \in {asSchema(x) : x \in
                  {SchemaDependencies(schema.dependencies, 1)[k] :
                     k \in DOMAIN SchemaDependencies(schema.dependencies, 1)}}

(***************************************************************************)
(* C17.  The order of the diagnostics of one object and of one array.      *)
(***************************************************************************)
\* the diagnostics of the document against {properties: {key: subschema}},
\* one key of schema.properties at a time, in the order of the keys
RECURSIVE PropertyDiagnostics(_, _, _)
PropertyDiagnostics(d, properties, i) ==
  IF i > Len(properties) THEN <<>>
  ELSE JSONDocumentValidate(d, [EmptySchema EXCEPT !.properties = <<properties[i]>>])
         .diagnostics \o PropertyDiagnostics(d, properties, i + 1)

\* the diagnostics of each item of the array against the items schema, in
\* item order
RECURSIVE ItemDiagnostics(_, _, _, _)
ItemDiagnostics(d, item, items, i) ==
  IF i > Len(items) THEN <<>>
  ELSE LET ps == validate(d, items[i], item, NewValidationResult,
                          NoOpSchemaCollector, TopContext).vr.problems
       IN [k \in DOMAIN ps |-> Diagnostic(ps[k])] \o ItemDiagnostics(d, item, items, i + 1)

OnlyProperties ==
  Root(document) # 0 /\ document[1].type = "object"
    /\ schema = [EmptySchema EXCEPT !.properties = schema.properties]

OnlyItems ==
  Root(document) # 0 /\ document[1].type = "array"
    /\ schema.items # None /\ ~schema.itemsIsArray
    /\ schema = [EmptySchema EXCEPT !.items = schema.items]

\* C17, amended: within one object the diagnostics for its property values
\* appear in the order of the keys of schema.properties (one key after the
\* other, whatever the source order of the properties); within one array the
\* diagnostics for its items appear in item order
C17_DiagnosticsInSchemaKeyOrder ==
  diagnostics.status = "returned" =>
    /\ OnlyProperties =>
         diagnostics.diagnostics = PropertyDiagnostics(document, schema.properties, 1)
    /\ OnlyItems =>
         diagnostics.diagnostics =
           ItemDiagnostics(document, asSchema(schema.items[1]), document[1].items, 1)

\* the child (property or item) of the root the diagnostic lies in: its
\* position among the root's children, 0 when it lies in none
Owner(d, diag) ==
  LET cs == children(d, 1)
      inside == {k \in DOMAIN cs :
                   d[cs[k]].offset <= diag.range.start
                     /\ diag.range.start <= d[cs[k]].offset + d[cs[k]].length}
  IN IF inside = {} THEN 0 ELSE CHOOSE k \in inside : \A j \in inside : k <= j

\* two properties of the object that schema.properties lists in the reverse
\* of their source order both have a diagnostic
C17_Witness ==
  /\ diagnostics.status = "returned"
  /\ OnlyProperties
  /\ \E i, j \in DOMAIN diagnostics.diagnostics :
       i < j /\ Owner(document, diagnostics.diagnostics[i])
                  > Owner(document, diagnostics.diagnostics[j])

\* C17 as stated: within one object the diagnostics for its property values
\* appear in the source order of the properties, independent of the order of
\* the keys in schema.properties; within one array the diagnostics for its
\* items appear in item order
C17_DiagnosticsInSourceOrder ==
  (diagnostics.status = "returned" /\ (OnlyProperties \/ OnlyItems)) =>
    \A i, j \in DOMAIN diagnostics.diagnostics :
      i < j => Owner(document, diagnostics.diagnostics[i])
                 <= Owner(document, diagnostics.diagnostics[j])

(***************************************************************************)
(* C18.  uniqueItems and deep equality.                                    *)
(***************************************************************************)
DuplicateItemsWarnings ==
  {i \in DOMAIN diagnostics.diagnostics :
     diagnostics.diagnostics[i].message = "Array has duplicate items."
       /\ diagnostics.diagnostics[i].range.start = document[1].offset}

DeepEqualItems ==
  LET values == getNodeValue(document, 1).items
  IN \E i, j \in DOMAIN values : i # j /\ equals(values[i], values[j])

\* C18 as stated: with uniqueItems true, exactly one "Array has duplicate
\* items." warning is emitted iff two items of the array are deep-equal, also
\* when the equal items are arrays or objects, and none otherwise
C18_UniqueItemsDeepEquality ==
  (diagnostics.status = "returned" /\ Root(document) # 0
     /\ document[1].type = "array" /\ schema.bool = "obj" /\ schema.uniqueItems) =>
    Cardinality(DuplicateItemsWarnings) = IF DeepEqualItems THEN 1 ELSE 0

(***************************************************************************)
(* C19.  The records of the alternatives that lose an anyOf / oneOf step.  *)
(***************************************************************************)
\* the top-level schema has one list of alternatives
OneList ==
  schema.bool = "obj" /\ (schema.anyOf = <<>>) # (schema.oneOf = <<>>)

Alternatives == IF schema.anyOf # <<>> THEN schema.anyOf ELSE schema.oneOf

\* bestMatch when the loop of testAlternatives is over
FinalBestMatch ==
  alternativesLoop(document, Root(document), Alternatives, schema.anyOf = <<>>, 1,
                   [matches |-> <<>>, bestMatch |-> None, threw |-> FALSE],
                   SchemaCollector(matching.focusOffset, matching.exclude),
                   Inside(TopContext, Root(document), schema)).bestMatch[1]

\* the alternatives whose sub-result compares strictly worse than the
\* finally selected best match
Losing ==
  {i \in DOMAIN Alternatives :
     compare(SubRun(Alternatives, i).vr, FinalBestMatch.validationResult) < 0}

\* the losing alternatives the combine rule of anyOf does not apply to
LosingNotCombined ==
  {i \in Losing : schema.anyOf = <<>> \/ hasProblems(SubRun(Alternatives, i).vr)}

\* the records of the alternatives in dropped are in the outer collector only
\* as often as the other alternatives collected the same record
OnlyFromOthers(dropped) ==
  \A i \in dropped :
    \A k \in DOMAIN SubRun(Alternatives, i).col.schemas :
      LET r == SubRun(Alternatives, i).col.schemas[k]
      IN Count(matching.schemas, r)
           <= CountInRuns(Alternatives, (DOMAIN Alternatives) \ dropped, r)

\* C19, amended: after an anyOf/oneOf step no record collected while
\* validating a losing alternative appears in the outer collector, for every
\* order of the alternatives, when the step is a oneOf or the alternative has
\* problems; under anyOf an alternative without problems contributes its
\* records also when it compares strictly worse than the best match
C19_DroppedAlternativesNotRecorded ==
  (matching.status = "returned" /\ Root(document) # 0 /\ OneList) =>
    OnlyFromOthers(LosingNotCombined)

\* three alternatives, the first and the last lose, and a record of the
\* first (the best match until the second came) is not in the outer collector
C19_Witness ==
  /\ matching.status = "returned" /\ Root(document) # 0 /\ OneList
  /\ Len(Alternatives) = 3
  /\ LosingNotCombined = {1, 3}
  /\ \E k \in DOMAIN SubRun(Alternatives, 1).col.schemas :
       Count(matching.schemas, SubRun(Alternatives, 1).col.schemas[k]) = 0

\* C19 as stated: no record collected while validating a losing alternative
\* (one whose sub-result compares strictly worse than the finally selected
\* best match) appears in the outer collector
C19_LosingAlternativesNotRecorded ==
  (matching.status = "returned" /\ Root(document) # 0 /\ OneList) =>
    OnlyFromOthers(Losing)

(***************************************************************************)
(* C20.  mergePropertyMatch.                                               *)
(***************************************************************************)
\* 1 when the condition holds, else 0
Bump(condition) == IF condition THEN 1 ELSE 0

\* C20: a.mergePropertyMatch(b) appends b's problems, adds exactly 1 to
\* propertiesMatches, adds 1 to propertiesValueMatches iff b.enumValueMatch or
\* (b has no problems and b.propertiesMatches > 0), adds 1 to
\* primaryValueMatches iff b.enumValueMatch and b.enumValues has exactly one
\* value, and changes nothing else; so no score decreases
C20_MergePropertyMatch ==
  results.merged =>
    LET a == results.a
        b == results.b
        c == results.c
    IN /\ c.problems = a.problems \o b.problems
       /\ c.propertiesMatches = a.propertiesMatches + 1
       /\ c.propertiesValueMatches = a.propertiesValueMatches
            + Bump(b.enumValueMatch \/ (b.problems = <<>> /\ b.propertiesMatches > 0))
       /\ c.primaryValueMatches = a.primaryValueMatches
            + Bump(b.enumValueMatch /\ b.enumValues # None /\ Len(b.enumValues[1]) = 1)
       /\ c.enumValueMatch = a.enumValueMatch
       /\ c.enumValues = a.enumValues
       /\ c.propertiesMatches >= a.propertiesMatches
       /\ c.propertiesValueMatches >= a.propertiesValueMatches
       /\ c.primaryValueMatches >= a.primaryValueMatches

\* a property value with problems and property matches of its own, no enum
\* match: one more property match, no more value matches
C20_Witness ==
  /\ results.merged
  /\ results.b.problems # <<>> /\ results.b.propertiesMatches > 0
  /\ ~results.b.enumValueMatch
  /\ results.a.problems # <<>>
  /\ results.c.propertiesMatches = results.a.propertiesMatches + 1
  /\ results.c.propertiesValueMatches = results.a.propertiesValueMatches
  /\ Len(results.c.problems) = 2

(***************************************************************************)
(* C21.  The order of the keywords in one validate(node, schema).          *)
(***************************************************************************)
\* the schema cut down to one step of the walk: the keywords of the node
\* types, then each keyword of _validateNode with the errorMessage it reads
SharedOnly(s) ==
  [EmptySchema EXCEPT !.errorMessage = s.errorMessage]

KeywordSteps(s) ==
  << [s EXCEPT !.type = <<>>, !.typeIsArray = FALSE, !.allOf = <<>>, !.not = None,
               !.anyOf = <<>>, !.oneOf = <<>>, !.if = None, !.then = None,
               !.else = None, !.enum = None, !.const = None,
               !.deprecationMessage = ""],
     [SharedOnly(s) EXCEPT !.type = s.type, !.typeIsArray = s.typeIsArray],
     [SharedOnly(s) EXCEPT !.allOf = s.allOf],
     [SharedOnly(s) EXCEPT !.not = s.not],
     [SharedOnly(s) EXCEPT !.anyOf = s.anyOf],
     [SharedOnly(s) EXCEPT !.oneOf = s.oneOf],
     [SharedOnly(s) EXCEPT !.if = s.if, !.then = s.then, !.else = s.else],
     [SharedOnly(s) EXCEPT !.enum = s.enum],
     [SharedOnly(s) EXCEPT !.const = s.const],
     [SharedOnly(s) EXCEPT !.deprecationMessage = s.deprecationMessage] >>

ProblemsOf(d, n, s) ==
  validate(d, n, s, NewValidationResult, NoOpSchemaCollector, TopContext).vr.problems

\* the problems of the steps, one step after the other
RECURSIVE StepProblems(_, _, _, _)
StepProblems(d, n, steps, i) ==
  IF i > Len(steps) THEN <<>>
  ELSE ProblemsOf(d, n, steps[i]) \o StepProblems(d, n, steps, i + 1)

\* the root with the schema, and each value the root's schema.properties
\* names with that property's schema
Evaluations ==
  {<<1, asSchema(schema)>>}
    \cup (IF document[1].type = "object"
            THEN {<<document[document[1].properties[k]].valueNode,
                    asSchema(schema.properties[j].schema)>> :
                    k \in {k \in DOMAIN document[1].properties :
                             document[document[1].properties[k]].valueNode # 0},
                    j \in DOMAIN schema.properties}
          ELSE {})

\* C21: in one validate(node, schema) the diagnostics of the keywords of the
\* node's type come first, then those of type, allOf, not, anyOf, oneOf,
\* if/then/else, enum, const and deprecationMessage in this order; and the
\* record of (node, schema) is added after everything the evaluation
\* collected, problems or not
C21_KeywordOrder ==
  /\ (diagnostics.status = "returned" /\ Root(document) # 0) =>
       \A e \in Evaluations :
         ProblemsOf(document, e[1], e[2])
           = StepProblems(document, e[1], KeywordSteps(e[2]), 1)
  /\ (matching.status = "returned" /\ Root(document) # 0 /\ Truthy(schema)) =>
       /\ matching.schemas # <<>>
       /\ LET last == matching.schemas[Len(matching.schemas)]
          IN last.node = 1 /\ last.schema = schema /\ last.caller = None

\* every step of the walk reported on the value of x, and the records the
\* steps collected stand before the root's
C21_Witness ==
  /\ diagnostics.status = "returned" /\ matching.status = "returned"
  /\ Root(document) # 0
  /\ schema.properties # <<>>
  /\ \E e \in Evaluations :
       /\ e[1] # 1
       /\ \A i \in 1..10 : ProblemsOf(document, e[1], KeywordSteps(e[2])[i]) # <<>>
  /\ Len(matching.schemas) > 5
  /\ matching.problems # <<>>

(***************************************************************************)
(* C22.  required.                                                         *)
(***************************************************************************)
\* the keys of the properties of the object n
KeysOf(d, n) ==
  {d[d[d[n].properties[k]].keyNode].value.s : k \in DOMAIN d[n].properties}

\* the schema holds required and nothing that reports on a property
RequiredAtRoot ==
  /\ Root(document) # 0 /\ document[1].type = "object"
  /\ schema.bool = "obj" /\ schema.required # <<>>
  /\ schema = [EmptySchema EXCEPT !.required = schema.required, !.type = schema.type,
                                  !.additionalProperties = schema.additionalProperties]

MissingWarnings(name) ==
  {i \in DOMAIN diagnostics.diagnostics :
     diagnostics.diagnostics[i].message = "Missing property \"" \o name \o "\"."}

\* C22 as stated: for each name in schema.required exactly one "Missing
\* property" warning is emitted iff the object has no property with that key
\* (none for a key that is present, also when its property has no value
\* node), located at {offset: node.offset, length: 1} for the root object
C22_RequiredIffKeyAbsent ==
  (diagnostics.status = "returned" /\ RequiredAtRoot) =>
    \A k \in DOMAIN schema.required :
      /\ Cardinality(MissingWarnings(schema.required[k]))
           = IF schema.required[k] \in KeysOf(document, 1) THEN 0 ELSE 1
      /\ \A i \in MissingWarnings(schema.required[k]) :
           diagnostics.diagnostics[i].range
             = [start |-> document[1].offset, end |-> document[1].offset + 1]

(***************************************************************************)
(* C23.  additionalProperties: false.                                      *)
(***************************************************************************)
KeyOfProperty(d, p) == d[d[p].keyNode].value.s

\* the key is named in schema.properties or matched by a pattern
Processed(key) ==
  \/ \E j \in DOMAIN schema.properties : schema.properties[j].key = key
  \/ \E j \in DOMAIN schema.patternProperties :
       RegExpTest(schema.patternProperties[j].key, key)

\* the last property of the root with this key
LastProperty(d, key) ==
  LET ps == d[1].properties
      hits == {k \in DOMAIN ps : KeyOfProperty(d, ps[k]) = key}
  IN ps[CHOOSE k \in hits : \A j \in hits : j <= k]

NotAllowed(d, key) ==
  LET keyNode == d[d[LastProperty(d, key)].keyNode]
  IN Diagnostic(Problem(keyNode.offset, keyNode.length, NoCode,
                        "Property " \o key \o " is not allowed."))

\* one warning for each occurrence, in source order, of a key that is not
\* processed and whose last occurrence has a value node
RECURSIVE NotAllowedWarnings(_, _, _)
NotAllowedWarnings(d, ps, k) ==
  IF k > Len(ps) THEN <<>>
  ELSE LET key == KeyOfProperty(d, ps[k])
       IN (IF ~Processed(key) /\ d[LastProperty(d, key)].valueNode # 0
                /\ ~(key = "<<" /\ d[ps[k]].valueNode # 0)
             THEN <<NotAllowed(d, key)>> ELSE <<>>)
            \o NotAllowedWarnings(d, ps, k + 1)

\* an object against a schema with additionalProperties: false and nothing
\* that reports after it
ClosedAtRoot ==
  /\ Root(document) # 0 /\ document[1].type = "object"
  /\ schema.bool = "obj" /\ schema.additionalProperties = Some(FalseSchema)
  /\ schema.type \in {<<>>, <<"object">>}
  /\ schema = [EmptySchema EXCEPT !.type = schema.type, !.required = schema.required,
                                  !.properties = schema.properties,
                                  !.patternProperties = schema.patternProperties,
                                  !.additionalProperties = schema.additionalProperties]

ResultOf(d, n, s) ==
  validate(d, n, s, NewValidationResult, NoOpSchemaCollector, TopContext).vr

\* the schema holds if, then and else and nothing else
ConditionAtRoot ==
  /\ Root(document) # 0 /\ schema.bool = "obj" /\ schema.if # None
  /\ schema = [EmptySchema EXCEPT !.if = schema.if, !.then = schema.then,
                                  !.else = schema.else]

IfResult == ResultOf(document, 1, asSchema(schema.if[1]))

\* the branch to evaluate: then when if has no problems, else when it has
\* (none when that keyword is absent), and its result
Branch == IF ~hasProblems(IfResult) THEN schema.then ELSE schema.else

BranchResult ==
  IF Branch = None THEN NewValidationResult
  ELSE ResultOf(document, 1, asSchema(Branch[1]))

\* C24: the problems of the if sub-validation never reach the outer result;
\* then is evaluated iff if has no problems and then is present, else iff if
\* has problems and else is present, never both; the problems and the
\* propertiesMatches / propertiesValueMatches of the evaluated branch are
\* added to the outer result; the records gathered under if are in the outer
\* collector whether or not if passed
C24_IfThenElse ==
  /\ (diagnostics.status = "returned" /\ ConditionAtRoot) =>
       LET outer == ResultOf(document, 1, schema)
       IN /\ diagnostics.diagnostics
               = [i \in DOMAIN BranchResult.problems |-> Diagnostic(BranchResult.problems[i])]
          /\ outer.problems = BranchResult.problems
          /\ outer.propertiesMatches = BranchResult.propertiesMatches
          /\ outer.propertiesValueMatches = BranchResult.propertiesValueMatches
  /\ (matching.status = "returned" /\ ConditionAtRoot) =>
       \A k \in DOMAIN SubRun(<<schema.if[1]>>, 1).col.schemas :
         Count(matching.schemas, SubRun(<<schema.if[1]>>, 1).col.schemas[k]) >= 1

\* if has problems, else is evaluated and reports, then is present, and the
\* records of if are collected
C24_Witness ==
  /\ diagnostics.status = "returned" /\ matching.status = "returned"
  /\ ConditionAtRoot
  /\ hasProblems(IfResult)
  /\ schema.then # None /\ schema.else # None
  /\ diagnostics.diagnostics # <<>>
  /\ SubRun(<<schema.if[1]>>, 1).col.schemas # <<>>

(***************************************************************************)
(* C25.  The warning of oneOf about several matches.                       *)
(***************************************************************************)
\* the schema holds one list of alternatives and nothing else
OnlyAlternatives ==
  /\ Root(document) # 0 /\ OneList
  /\ schema = [EmptySchema EXCEPT !.anyOf = schema.anyOf, !.oneOf = schema.oneOf]

MultipleMatches ==
  Problem(document[1].offset, 1, NoCode,
          "Matches multiple schemas when only one must validate.")

\* C25: oneOf emits exactly one "Matches multiple schemas when only one must
\* validate." warning at {offset: node.offset, length: 1} iff at least two
\* alternatives validate the node with no problems, anyOf never does, and the
\* warning stands before the problems of the best match
C25_MultipleMatchesWarning ==
  (diagnostics.status = "returned" /\ OnlyAlternatives) =>
    LET expected ==
          (IF schema.oneOf # <<>> /\ Cardinality(CleanWithoutCollector(schema.oneOf)) >= 2
             THEN <<MultipleMatches>> ELSE <<>>)
            \o FinalBestMatch.validationResult.problems
    IN diagnostics.diagnostics = [i \in DOMAIN expected |-> Diagnostic(expected[i])]

\* a oneOf of three alternatives, two of them without problems
C25_Witness ==
  /\ diagnostics.status = "returned" /\ OnlyAlternatives
  /\ Len(schema.oneOf) = 3
  /\ Cardinality(CleanWithoutCollector(schema.oneOf)) = 2
  /\ diagnostics.diagnostics = <<Diagnostic(MultipleMatches)>>

(***************************************************************************)
(* C26.  not.                                                              *)
(***************************************************************************)
\* the schema holds not and nothing else
NotAtRoot ==
  /\ Root(document) # 0 /\ schema.bool = "obj" /\ schema.not # None
  /\ schema = [EmptySchema EXCEPT !.not = schema.not]

\* the sub-validation of the not step on the root, with its sub-collector
NotSubRun ==
  validate(document, 1, asSchema(schema.not[1]), NewValidationResult,
           newSub(SchemaCollector(matching.focusOffset, matching.exclude)),
           UnderNot(Inside(TopContext, 1, schema)))

NotAllowedSchema ==
  Problem(document[1].offset, document[1].length, NoCode,
          "Matches a schema that is not allowed.")

\* C26: the not step adds exactly one "Matches a schema that is not
\* allowed." warning at the node's span iff the sub-validation has no
\* problems and nothing otherwise; the problems, the match scores and the
\* enum flags of the sub-result never reach the outer result; every record
\* of the sub-collector is added (flipped) to the outer collector in both cases
C26_NotStep ==
  /\ (diagnostics.status = "returned" /\ NotAtRoot) =>
       LET outer == ResultOf(document, 1, schema)
           expected == IF hasProblems(NotSubRun.vr) THEN <<>> ELSE <<NotAllowedSchema>>
       IN /\ diagnostics.diagnostics = [i \in DOMAIN expected |-> Diagnostic(expected[i])]
          /\ outer = [NewValidationResult EXCEPT !.problems = expected]
  /\ (matching.status = "returned" /\ NotAtRoot) =>
       matching.schemas
         = [i \in DOMAIN NotSubRun.col.schemas |-> flip(NotSubRun.col.schemas[i])]
             \o <<ApplicableSchema(1, schema, TopContext)>>

\* the sub-validation matched an enum and has records, the outer result has
\* the warning only
C26_Witness ==
  /\ diagnostics.status = "returned" /\ matching.status = "returned"
  /\ NotAtRoot
  /\ NotSubRun.vr.enumValueMatch /\ NotSubRun.vr.enumValues # None
  /\ diagnostics.diagnostics = <<Diagnostic(NotAllowedSchema)>>
  /\ Len(matching.schemas) = 2

(***************************************************************************)
(* C27.  The enum values of equally ranked failing alternatives.           *)
(***************************************************************************)
\* the result of alternative i of the list on the root
AltResult(i) == ResultOf(document, 1, asSchema(Alternatives[i]))

AllFail == \A i \in DOMAIN Alternatives : hasProblems(AltResult(i))

\* the alternative failed an enum
FailedEnum(i) == ~AltResult(i).enumValueMatch /\ AltResult(i).enumValues # None

\* the first alternative of maximal compare rank
FirstBest ==
  CHOOSE i \in DOMAIN Alternatives :
    /\ \A j \in DOMAIN Alternatives : compare(AltResult(j), AltResult(i)) <= 0
    /\ \A j \in DOMAIN Alternatives : j < i => compare(AltResult(j), AltResult(i)) < 0

\* the enum values of the alternatives from i on that are in the set
RECURSIVE EnumValuesOf(_, _)
EnumValuesOf(indices, i) ==
  IF i > Len(Alternatives) THEN <<>>
  ELSE (IF i \in indices THEN AltResult(i).enumValues[1] ELSE <<>>)
         \o EnumValuesOf(indices, i + 1)

\* the later alternatives that rank equal to the best match and failed an enum
MergedIntoBest ==
  {j \in DOMAIN Alternatives :
     j > FirstBest /\ compare(AltResult(j), AltResult(FirstBest)) = 0 /\ FailedEnum(j)}

Rewritten(problems, vals) ==
  [i \in DOMAIN problems |->
     IF problems[i].code = EnumValueMismatch
       THEN [problems[i] EXCEPT !.message = enumWarning(vals)]
     ELSE problems[i]]

\* C27, amended: when a node fails every alternative of an anyOf/oneOf, the
\* outer result holds the problems of the best match (the first alternative
\* of maximal rank); when the best match failed an enum and later equally
\* ranked alternatives failed an enum too, the message of each of its
\* EnumValueMismatch problems lists its enum values followed by theirs in
\* list order; when the best match or the other alternative matched its enum
\* or carries no enumValues, no list is merged and no message is rewritten
C27_EnumValuesMergedIntoBest ==
  (diagnostics.status = "returned" /\ OnlyAlternatives /\ AllFail) =>
    LET best == AltResult(FirstBest).problems
        expected ==
          IF FailedEnum(FirstBest) /\ MergedIntoBest # {}
            THEN Rewritten(best, EnumValuesOf({FirstBest} \cup MergedIntoBest, 1))
          ELSE best
    IN diagnostics.diagnostics = [i \in DOMAIN expected |-> Diagnostic(expected[i])]

\* the best match failed an enum, the next alternative ranks equal and has
\* no enum, the third failed another enum: one message with both lists
C27_Witness ==
  /\ diagnostics.status = "returned" /\ OnlyAlternatives /\ AllFail
  /\ Len(Alternatives) = 3
  /\ FirstBest = 1 /\ FailedEnum(1) /\ MergedIntoBest = {3}
  /\ compare(AltResult(2), AltResult(1)) = 0
  /\ AltResult(3).enumValues # AltResult(1).enumValues
  /\ Len(diagnostics.diagnostics) = 1
  /\ diagnostics.diagnostics[1].code = EnumValueMismatch

EnumFailers == {i \in DOMAIN Alternatives : FailedEnum(i)}

\* C27 as stated: when a node fails every alternative and two or more
\* equally ranked alternatives each failed an enum, the outer result holds a
\* single EnumValueMismatch diagnostic whose message lists the enum values of
\* those alternatives in list order
C27_EnumValuesOfAllFailers ==
  (diagnostics.status = "returned" /\ OnlyAlternatives /\ AllFail
     /\ Cardinality(EnumFailers) >= 2
     /\ \A i, j \in EnumFailers : compare(AltResult(i), AltResult(j)) = 0) =>
    LET hits == {i \in DOMAIN diagnostics.diagnostics :
                   diagnostics.diagnostics[i].code = EnumValueMismatch}
    IN /\ Cardinality(hits) = 1
       /\ \A i \in hits :
            diagnostics.diagnostics[i].message = enumWarning(EnumValuesOf(EnumFailers, 1))

(***************************************************************************)
(* C28.  The first of the best alternatives wins.                          *)
(***************************************************************************)
\* a problem without the message mergeEnumValues may rewrite
WithoutEnumMessage(problems) ==
  [i \in DOMAIN problems |->
     IF problems[i].code = EnumValueMismatch
       THEN [problems[i] EXCEPT !.message = ""]
     ELSE problems[i]]

\* the problems of the outer result that come from an alternative: all but
\* the warning of oneOf about several matches
FromAlternatives ==
  LET ps == ResultOf(document, 1, schema).problems
  IN SelectSeq(ps, LAMBDA q : q # MultipleMatches)

\* C28: the problems an anyOf/oneOf merges into the outer result are those
\* of exactly one alternative, the first in list order among the alternatives
\* of maximal compare rank; a later alternative that compares equal does not
\* replace it and none of its problems is reported (its enum values may be
\* merged into the best match's enum message)
C28_FirstOfTheBestWins ==
  (diagnostics.status = "returned" /\ OnlyAlternatives) =>
    /\ WithoutEnumMessage(FromAlternatives)
         = WithoutEnumMessage(AltResult(FirstBest).problems)
    /\ \A i \in DOMAIN diagnostics.diagnostics :
         diagnostics.diagnostics[i] = Diagnostic(ResultOf(document, 1, schema).problems[i])

\* the first alternative ranks below the second, the third ranks equal to
\* the second and has other problems: the second's are reported
C28_Witness ==
  /\ diagnostics.status = "returned" /\ OnlyAlternatives
  /\ Len(Alternatives) = 3
  /\ FirstBest = 2
  /\ compare(AltResult(3), AltResult(2)) = 0
  /\ hasProblems(AltResult(2))
  /\ WithoutEnumMessage(AltResult(3).problems) # WithoutEnumMessage(AltResult(2).problems)
  /\ WithoutEnumMessage(AltResult(1).problems) # WithoutEnumMessage(AltResult(2).problems)
  /\ diagnostics.diagnostics # <<>>

====
